---------------------------- MODULE Spec2Model ----------------------------
(***************************************************************************)
(* Model of the AI service's request validation, content-safety and        *)
(* resilient-call layer (src/backend/services/ai).                         *)
(*                                                                         *)
(*   SpecRetry  utils/error_handler.py: the retry decorator wrapped around *)
(*              an operation whose outcome at each attempt is an input.    *)
(*   SpecIllus  services/stable_diffusion_service.py over                  *)
(*              models/illustration_request.py: two requests constructed   *)
(*              and handed to generate_illustration on one event loop.     *)
(*   SpecIllusLive the same, every step that can be taken being taken.     *)
(*   SpecStory  controllers/story_controller.py over                       *)
(*              services/openai_service.py and models/story_request.py,    *)
(*              as Python loads them: the import of the endpoint's module  *)
(*              for a request that waits to be posted.                     *)
(*   SpecClass  utils/error_handler.py: the two error handlers and         *)
(*              _is_retryable_error called on the faults that reach them.  *)
(*   SpecSafety utils/validators.py: the content validator called on texts *)
(*              with and without a match of its patterns.                  *)
(*   SpecRequest models/story_request.py: the import of StoryRequest and   *)
(*              its call on keyword arguments.                             *)
(*   SpecPicture models/illustration_request.py: an IllustrationRequest    *)
(*              constructed from a prompt, a style and a size.             *)
(*   SpecDims   the two validators of image dimensions on one pair.        *)
(*                                                                         *)
(* Five specifications apply single functions, as they are written, to     *)
(* inputs drawn from bounded sets:                                         *)
(*   SpecSla    the comparisons of a generation time with the threshold    *)
(*              in the two controllers.                                    *)
(*   SpecDict   StoryRequest.to_dict and the call of StoryRequest on its   *)
(*              result.                                                    *)
(*   SpecInterests the last statement of validate_interests.               *)
(*   SpecResponse OpenAIService.validate_response.                         *)
(*   SpecPolicy the attempts and the waits of the three retry loops.       *)
(*                                                                         *)
(* Exception classes are modelled by their qualified names.  Durations are *)
(* in tenths of a second (RETRY_DELAY = 1.5 s is 15).                      *)
(***************************************************************************)
EXTENDS Integers, Sequences, FiniteSets, TLC

VARIABLES
    \* ---- retry decorator (utils/error_handler.py, retry.wrapper) ----
    max_attempts,     \* decorator argument
    delay,            \* decorator argument, tenths of a second
    attempt,          \* loop variable of `for attempt in range(max_attempts)`
    last_exception,   \* local of the wrapper
    history,          \* outcome of every invocation of the wrapped function
    sleeps,           \* argument of every time.sleep made, in order
    outcome,          \* what the wrapper returned or raised
    pc                \* "loop" while the wrapper runs, "done" once it has left

retry_vars == <<max_attempts, delay, attempt, last_exception, history, sleeps,
                outcome, pc>>

\* ---- illustration requests on one event loop ----
VARIABLES
    i_raw,         \* the fields each request is made from
    i_req,         \* the IllustrationRequest constructed from them
    i_pc,          \* where each request is
    i_attempt,     \* loop variable of `for attempt in range(MAX_RETRIES)`
    i_calls,       \* number of self._client.generate calls made for the request
    i_sleeps,      \* arguments of the asyncio.sleep calls made for the request
    i_last_error,  \* e of the latest `except Exception as e` of the loop
    i_result,      \* what the caller of generate_illustration receives
    i_request_id,  \* the request_id of the error the caller receives
    i_uuids,       \* how many times uuid.uuid4() has been called
    thread         \* the task the event-loop thread is executing, 0 if none

illus_vars == <<i_raw, i_req, i_pc, i_attempt, i_calls, i_sleeps, i_last_error,
                i_result, i_request_id, i_uuids, thread>>

\* ---- story coordinator ----
VARIABLES
    s_raw,         \* the body of the request a client is to post
    s_pc,          \* "pending" until the endpoint's module is imported, then "done"
    s_result       \* what the program gives for the request

story_vars == <<s_raw, s_pc, s_result>>

\* ---- calls of the two error handlers ----
VARIABLES
    c_log          \* one record per fault handed to a handler, in order

class_vars == <<c_log>>

\* ---- calls of the content validator ----
VARIABLES
    v_parts,       \* the text as the caller put it together
    v_text,        \* the text handed to the validator
    v_pc,          \* "pending" before the call, "checked" after it
    v_safety,      \* result of _check_content_safety(v_text)
    v_result       \* result of validate_story_prompt(v_text)

safety_vars == <<v_parts, v_text, v_pc, v_safety, v_result>>

\* ---- the construction of a StoryRequest ----
VARIABLES
    q_raw,         \* the keyword arguments of StoryRequest(...)
    q_pc,          \* "received", then "failed" or "constructed"
    q_req,         \* the instance, once constructed
    q_error        \* the exception of a failed construction

request_vars == <<q_raw, q_pc, q_req, q_error>>

\* ---- the construction of an IllustrationRequest ----
VARIABLES
    d_raw,         \* the keyword arguments of IllustrationRequest(...)
    d_pc,          \* "received", "failed", "constructed"
    d_req,         \* the instance, once constructed
    d_error        \* the error of a failed construction

picture_vars == <<d_raw, d_pc, d_req, d_error>>

\* ---- the two controllers' check of a generation time ----
VARIABLES
    m_kind,        \* "story" or "illustration": whose comparison is applied
    m_elapsed,     \* generation_time of the call, tenths of a second
    m_pc,          \* "returned" once the call is back, "measured" after the check
    m_breach       \* whether the check marked the call as over the threshold

sla_vars == <<m_kind, m_elapsed, m_pc, m_breach>>

\* ---- StoryRequest.to_dict and the request made from the dictionary ----
VARIABLES
    e_req,         \* the five attributes of self that to_dict reads
    e_dict,        \* the dictionary to_dict returns
    e_again,       \* the five fields of StoryRequest(**e_dict), if there is one
    e_error,       \* what StoryRequest(**e_dict) raised
    e_pc           \* "given", "exported", then "rebuilt" or "failed"

dict_vars == <<e_req, e_dict, e_again, e_error, e_pc>>

\* ---- the last statement of StoryRequest.validate_interests ----
VARIABLES
    n_given,       \* the list the statement reads
    n_validated,   \* the list the statement assigns
    n_pc           \* "given", then "deduplicated"

interests_vars == <<n_given, n_validated, n_pc>>

\* ---- OpenAIService.validate_response on a content of the provider ----
VARIABLES
    a_content,     \* response.choices[0].message.content
    a_result,      \* the story returned, or the ValueError raised
    a_pc           \* "answered", then "returned" or "raised"

response_vars == <<a_content, a_result, a_pc>>

\* ---- the attempts and the waits of one retried call ----
VARIABLES
    p_loop,        \* "decorator", "illustration" or "story": the loop that retries
    p_attempt,     \* the attempt being made, from 0
    p_waits,       \* the waits made between the attempts, tenths of a second
    p_elapsed,     \* time since the first attempt began, tenths of a second
    p_pc           \* "calling", "waiting", then "returned" or "failed"

policy_vars == <<p_loop, p_attempt, p_waits, p_elapsed, p_pc>>

\* ---- the two validators of image dimensions on one pair ----
VARIABLES
    z_dims,        \* the pair (width, height) given to both
    z_pc,          \* "given", then "checked"
    z_util,        \* the outcome of utils.validators.validate_image_dimensions
    z_request      \* the outcome of IllustrationRequest.validate_size

dims_vars == <<z_dims, z_pc, z_util, z_request>>

vars == <<retry_vars, illus_vars, story_vars, class_vars, safety_vars,
          request_vars, picture_vars, sla_vars, dict_vars, interests_vars,
          response_vars, policy_vars, dims_vars>>

\* What the steps of each part leave alone: the variables of the other parts.
retry_frame == <<illus_vars, story_vars, class_vars, safety_vars,
    request_vars, picture_vars, sla_vars, dict_vars, interests_vars,
    response_vars, policy_vars, dims_vars>>
illus_frame == <<retry_vars, story_vars, class_vars, safety_vars,
    request_vars, picture_vars, sla_vars, dict_vars, interests_vars,
    response_vars, policy_vars, dims_vars>>
story_frame == <<retry_vars, illus_vars, class_vars, safety_vars,
    request_vars, picture_vars, sla_vars, dict_vars, interests_vars,
    response_vars, policy_vars, dims_vars>>
class_frame == <<retry_vars, illus_vars, story_vars, safety_vars,
    request_vars, picture_vars, sla_vars, dict_vars, interests_vars,
    response_vars, policy_vars, dims_vars>>
safety_frame == <<retry_vars, illus_vars, story_vars, class_vars,
    request_vars, picture_vars, sla_vars, dict_vars, interests_vars,
    response_vars, policy_vars, dims_vars>>
request_frame == <<retry_vars, illus_vars, story_vars, class_vars,
    safety_vars, picture_vars, sla_vars, dict_vars, interests_vars,
    response_vars, policy_vars, dims_vars>>
picture_frame == <<retry_vars, illus_vars, story_vars, class_vars,
    safety_vars, request_vars, sla_vars, dict_vars, interests_vars,
    response_vars, policy_vars, dims_vars>>
sla_frame == <<retry_vars, illus_vars, story_vars, class_vars, safety_vars,
    request_vars, picture_vars, dict_vars, interests_vars, response_vars,
    policy_vars, dims_vars>>
dict_frame == <<retry_vars, illus_vars, story_vars, class_vars,
    safety_vars, request_vars, picture_vars, sla_vars, interests_vars,
    response_vars, policy_vars, dims_vars>>
interests_frame == <<retry_vars, illus_vars, story_vars, class_vars,
    safety_vars, request_vars, picture_vars, sla_vars, dict_vars,
    response_vars, policy_vars, dims_vars>>
response_frame == <<retry_vars, illus_vars, story_vars, class_vars,
    safety_vars, request_vars, picture_vars, sla_vars, dict_vars,
    interests_vars, policy_vars, dims_vars>>
policy_frame == <<retry_vars, illus_vars, story_vars, class_vars,
    safety_vars, request_vars, picture_vars, sla_vars, dict_vars,
    interests_vars, response_vars, dims_vars>>
dims_frame == <<retry_vars, illus_vars, story_vars, class_vars,
    safety_vars, request_vars, picture_vars, sla_vars, dict_vars,
    interests_vars, response_vars, policy_vars>>

None == "None"
NoOutcome == [kind |-> "none"]

(***************************************************************************)
(* Bounds of the model.                                                    *)
(***************************************************************************)
MaxAttemptsArg == 3
\* Number of faults handed to the error handlers in one run.
MaxClassified == 2
\* How far below MIN_AGE and above MAX_AGE the ages of the requests go.
AgeMargin == 2
\* How far below MIN_IMAGE_DIMENSION and above MAX_IMAGE_DIMENSION the sizes go.
DimMargin == 8
\* How far beyond the two thresholds the measured generation times go, in
\* tenths of a second.
SlaMargin == 10
\* The longest list of interests handed to the deduplication.
MaxGiven == 4
\* How far below and above MIN_STORY_WORDS the word counts of the answers go.
WordMargin == 1
\* The durations of a quick and of a slow attempt, in tenths of a second.
QuickCall == 20
SlowCall == 100

(***************************************************************************)
(* Program constants.                                                      *)
(***************************************************************************)
MAX_RETRIES == 3
RETRY_DELAY == 15

ERROR_MESSAGES ==
    [RATE_LIMIT         |-> "API rate limit exceeded. Please try again later.",
     INVALID_REQUEST    |-> "Invalid request parameters provided.",
     API_ERROR          |-> "External API error occurred.",
     TIMEOUT            |-> "Request timed out. Please try again.",
     CONTENT_FILTER     |-> "Content violates safety guidelines.",
     RETRY_FAILED       |-> "Maximum retry attempts exceeded.",
     PERFORMANCE_DEGRADED |-> "Service performance degraded.",
     RESOURCE_EXHAUSTED |-> "AI resource quota exhausted."]

(***************************************************************************)
(* Exception classes that reach the error handlers.  None of them is a     *)
(* subclass of another one, so isinstance and type() agree on them.        *)
(***************************************************************************)
OpenAIFaults ==
    {"openai.error.RateLimitError", "openai.error.ServiceUnavailableError",
     "openai.error.APIConnectionError", "openai.error.InvalidRequestError",
     "openai.error.APIError", "openai.error.Timeout",
     "openai.error.ContentFilterError"}

StabilityFaults ==
    {"stability.RateLimitError", "stability.InvalidRequestError",
     "stability.ServerError", "stability.ResourceExhaustedError"}

OtherFaults == {"asyncio.TimeoutError", "ValueError"}

Faults == OpenAIFaults \cup StabilityFaults \cup OtherFaults

\* A mutant of _is_retryable_error: every exception is taken as retryable.
is_retryable_error_all(error) == TRUE

\* A mutant of _is_retryable_error: the retryable tuple completed with the
\* deadline and quota faults.
is_retryable_error_table(error) ==
    error \in {"openai.error.RateLimitError",
               "openai.error.ServiceUnavailableError",
               "openai.error.APIConnectionError",
               "openai.error.APIError",
               "openai.error.Timeout",
               "asyncio.TimeoutError",
               "stability.RateLimitError",
               "stability.ServerError",
               "stability.ResourceExhaustedError"}

\* _is_retryable_error: isinstance(error, retryable_errors)
is_retryable_error(error) ==
    error \in {"openai.error.RateLimitError",
               "openai.error.ServiceUnavailableError",
               "openai.error.APIConnectionError",
               "stability.RateLimitError",
               "stability.ServerError"}

RECURSIVE Pow2(_)
Pow2(n) == IF n = 0 THEN 1 ELSE 2 * Pow2(n - 1)

\* A mutant of wait_time: a constant delay, no exponential growth.
wait_time_flat(d, a) == d

\* wait_time = delay * (2 ** attempt)
wait_time(d, a) == d * Pow2(a)

\* An outcome of one invocation of the wrapped function.
Results == {"r1", "r2"}
Returned(v) == [kind |-> "return", value |-> v]
Raised(e)   == [kind |-> "raise", error |-> e]
CallOutcomes == {Returned(v) : v \in Results} \cup {Raised(e) : e \in Faults}

\* A mutant of WrapperReturn: the result of the call is dropped.
WrapperReturnNothing(v) == [kind |-> "return", value |-> None]

\* What the wrapper hands to its caller: return func(*args, **kwargs)
WrapperReturn(v) == [kind |-> "return", value |-> v]

\* raise (the exception caught is raised again, as it is)
WrapperReraise(e) == [kind |-> "raise", type |-> e, message |-> e,
                      original_error |-> None]

\* A mutant of RetryFailedError: the error names no underlying fault.
RetryFailedErrorBare(last) ==
    [kind |-> "raise", type |-> "AIServiceError",
     message |-> ERROR_MESSAGES.RETRY_FAILED, original_error |-> None]

\* raise AIServiceError(message=ERROR_MESSAGES['RETRY_FAILED'],
\*                      details={'original_error': str(last_exception)}, ...)
RetryFailedError(last) ==
    [kind |-> "raise", type |-> "AIServiceError",
     message |-> ERROR_MESSAGES.RETRY_FAILED, original_error |-> last]

(***************************************************************************)
(* The retry decorator.                                                    *)
(***************************************************************************)
RetryInit ==
    /\ max_attempts \in 0..MaxAttemptsArg
    /\ delay \in {10, RETRY_DELAY}
    /\ attempt = 0
    /\ last_exception = None
    /\ history = <<>>
    /\ sleeps = <<>>
    /\ outcome = NoOutcome
    /\ pc = "loop"

\* A mutant of LoopRuns: one iteration too few.
LoopRunsShort == attempt < max_attempts - 1

\* for attempt in range(max_attempts): the body runs once more
LoopRuns == attempt < max_attempts

\* try: return func(*args, **kwargs)
RetryReturn(v) ==
    /\ pc = "loop" /\ LoopRuns
    /\ history' = Append(history, Returned(v))
    /\ outcome' = WrapperReturn(v)
    /\ pc' = "done"
    /\ UNCHANGED <<max_attempts, delay, attempt, last_exception, sleeps>>
    /\ UNCHANGED retry_frame

\* except Exception as e: ... if not _is_retryable_error(e): raise
RetryRaise(e) ==
    /\ pc = "loop" /\ LoopRuns
    /\ ~is_retryable_error(e)
    /\ history' = Append(history, Raised(e))
    /\ last_exception' = e
    /\ outcome' = WrapperReraise(e)
    /\ pc' = "done"
    /\ UNCHANGED <<max_attempts, delay, attempt, sleeps>>
    /\ UNCHANGED retry_frame

\* except Exception as e: ... time.sleep(wait_time), then the next iteration
RetrySleep(e) ==
    /\ pc = "loop" /\ LoopRuns
    /\ is_retryable_error(e)
    /\ history' = Append(history, Raised(e))
    /\ last_exception' = e
    /\ sleeps' = Append(sleeps, wait_time(delay, attempt))
    /\ attempt' = attempt + 1
    /\ UNCHANGED <<max_attempts, delay, outcome, pc>>
    /\ UNCHANGED retry_frame

\* the loop is over: raise AIServiceError(RETRY_FAILED)
RetryExhausted ==
    /\ pc = "loop" /\ ~LoopRuns
    /\ outcome' = RetryFailedError(last_exception)
    /\ pc' = "done"
    /\ UNCHANGED <<max_attempts, delay, attempt, last_exception, history, sleeps>>
    /\ UNCHANGED retry_frame

RetryNext ==
    \/ \E v \in Results : RetryReturn(v)
    \/ \E e \in Faults : RetryRaise(e)
    \/ \E e \in Faults : RetrySleep(e)
    \/ RetryExhausted


(***************************************************************************)
(* Text.  A Python str is a sequence of one-character strings.             *)
(***************************************************************************)
UpperCase == <<"A", "B", "C", "D", "E", "F", "G", "H", "I", "J", "K", "L", "M",
               "N", "O", "P", "Q", "R", "S", "T", "U", "V", "W", "X", "Y", "Z">>
LowerCase == <<"a", "b", "c", "d", "e", "f", "g", "h", "i", "j", "k", "l", "m",
               "n", "o", "p", "q", "r", "s", "t", "u", "v", "w", "x", "y", "z">>

Range(s) == {s[i] : i \in DOMAIN s}

\* str.isspace for the characters of the model
IsSpace(c) == c \in {" ", "\t", "\n"}

\* str.lower, one character
CharLower(c) ==
    IF \E i \in DOMAIN UpperCase : UpperCase[i] = c
    THEN LowerCase[CHOOSE i \in DOMAIN UpperCase : UpperCase[i] = c]
    ELSE c

\* A mutant of StrLower: the text is left in the case it came in.
StrLowerKeep(s) == s

\* str.lower
StrLower(s) == [i \in DOMAIN s |-> CharLower(s[i])]

\* str.upper, one character, and str.upper / str.capitalize
CharUpper(c) ==
    IF \E i \in DOMAIN LowerCase : LowerCase[i] = c
    THEN UpperCase[CHOOSE i \in DOMAIN LowerCase : LowerCase[i] = c]
    ELSE c
StrUpper(s) == [i \in DOMAIN s |-> CharUpper(s[i])]
Capitalize(s) == [i \in DOMAIN s |-> IF i = 1 THEN CharUpper(s[i]) ELSE s[i]]

\* unicodedata.normalize('NFKC', c) for one character: the ordinal
\* indicators become the letters a and o, the other characters of the model
\* stay as they are.
NFKCChar(c) ==
    IF c = "ª" THEN "a"
    ELSE IF c = "º" THEN "o"
    ELSE c

\* unicodedata.normalize('NFKC', text)
NFKC(s) == [i \in DOMAIN s |-> NFKCChar(s[i])]

RECURSIVE LStrip(_)
LStrip(s) == IF s # <<>> /\ IsSpace(Head(s)) THEN LStrip(Tail(s)) ELSE s

RECURSIVE RStrip(_)
RStrip(s) ==
    IF s # <<>> /\ IsSpace(s[Len(s)]) THEN RStrip(SubSeq(s, 1, Len(s) - 1)) ELSE s

\* str.strip
Strip(s) == RStrip(LStrip(s))

\* ' '.join(s.split()): the whitespace-separated words, one space between
RECURSIVE JoinSplit(_)
JoinSplit(s) ==
    LET t == LStrip(s) IN
    IF t = <<>> THEN <<>>
    ELSE IF \E i \in DOMAIN t : IsSpace(t[i])
    THEN LET k    == CHOOSE i \in DOMAIN t :
                         IsSpace(t[i]) /\ \A j \in 1..(i - 1) : ~IsSpace(t[j])
             rest == JoinSplit(SubSeq(t, k + 1, Len(t)))
         IN  IF rest = <<>> THEN SubSeq(t, 1, k - 1)
             ELSE SubSeq(t, 1, k - 1) \o <<" ">> \o rest
    ELSE t

Abs(n) == IF n < 0 THEN -n ELSE n

\* s.split(): the whitespace-separated words of s, the text cut at the
\* whitespace character nearest its middle
RECURSIVE Split(_)
Split(s) ==
    LET spaces == {i \in DOMAIN s : IsSpace(s[i])} IN
    IF s = <<>> THEN <<>>
    ELSE IF spaces = {} THEN <<s>>
    ELSE LET m == CHOOSE i \in spaces :
                      \A j \in spaces : Abs(2 * i - Len(s)) <= Abs(2 * j - Len(s))
         IN  Split(SubSeq(s, 1, m - 1)) \o Split(SubSeq(s, m + 1, Len(s)))

\* `word in text` / re.search of a literal: word is a substring of text
Contains(text, word) ==
    \E i \in 0..(Len(text) - Len(word)) : SubSeq(text, i + 1, i + Len(word)) = word

\* ''.join(ss): the concatenation of the strings of ss, by halves
RECURSIVE Flatten(_)
Flatten(ss) ==
    IF ss = <<>> THEN <<>>
    ELSE IF Len(ss) = 1 THEN ss[1]
    ELSE LET m == Len(ss) \div 2
         IN  Flatten(SubSeq(ss, 1, m)) \o Flatten(SubSeq(ss, m + 1, Len(ss)))

\* The literals of the patterns, the styles and the sample inputs.
W_violence == <<"v", "i", "o", "l", "e", "n", "c", "e">>
W_weapon == <<"w", "e", "a", "p", "o", "n">>
W_drug == <<"d", "r", "u", "g">>
W_explicit == <<"e", "x", "p", "l", "i", "c", "i", "t">>
W_mature == <<"m", "a", "t", "u", "r", "e">>
W_adult == <<"a", "d", "u", "l", "t">>
W_fear == <<"f", "e", "a", "r">>
W_horror == <<"h", "o", "r", "r", "o", "r">>
W_scary == <<"s", "c", "a", "r", "y">>
W_death == <<"d", "e", "a", "t", "h">>
W_blood == <<"b", "l", "o", "o", "d">>
W_sun == <<"s", "u", "n">>
W_complex == <<"c", "o", "m", "p", "l", "e", "x">>
W_advanced == <<"a", "d", "v", "a", "n", "c", "e", "d">>
W_difficult == <<"d", "i", "f", "f", "i", "c", "u", "l", "t">>
STYLE_children_s_book == <<"c", "h", "i", "l", "d", "r", "e", "n", "'", "s",
    " ", "b", "o", "o", "k">>
STYLE_watercolor == <<"w", "a", "t", "e", "r", "c", "o", "l", "o", "r">>
STYLE_digital_art == <<"d", "i", "g", "i", "t", "a", "l", " ", "a", "r",
    "t">>
STYLE_cartoon == <<"c", "a", "r", "t", "o", "o", "n">>
STYLE_realistic == <<"r", "e", "a", "l", "i", "s", "t", "i", "c">>
P_dragon == <<"a", " ", "k", "i", "n", "d", " ", "d", "r", "a", "g", "o",
    "n">>
P_weapon == <<"a", " ", "W", "e", "a", "p", "o", "n", " ", "s", "h", "o",
    "p">>
P_scary == <<"<", "b", ">", "s", "c", "a", "r", "y", "<", "/", "b", ">",
    " ", "c", "a", "v", "e">>
P_split == <<"d", "r", "<", ">", "u", "g", " ", "d", "e", "n", " ", " ",
    "x">>
P_quote == <<"i", "t", "'", "s", " ", "a", " ", "\"", "f", "o", "x", "\"",
    " ", "d", "e", "n">>
P_short == <<"t", "o", "o", " ", "s", "h", "o", "r", "t">>
P_markup == <<" ", " ", "{", "[", "<", "&", ";", ">", "]", "}", " ", "\\",
    "\\", " ", "o", "k">>
IN_Watercolor == <<"W", "a", "t", "e", "r", "C", "o", "l", "o", "r">>
IN_childrens == <<"C", "h", "i", "l", "d", "r", "e", "n", "'", "s", " ",
    "B", "o", "o", "k">>
IN_oil == <<"o", "i", "l", " ", "p", "a", "i", "n", "t">>
E_amp == <<"&", "a", "m", "p", ";">>
E_lt == <<"&", "l", "t", ";">>
E_gt == <<"&", "g", "t", ";">>
E_quot == <<"&", "q", "u", "o", "t", ";">>
E_apos == <<"&", "#", "x", "2", "7", ";">>


(***************************************************************************)
(* utils/validators.py: ContentValidator                                   *)
(***************************************************************************)
\* NSFW_KEYWORDS: the list is empty in the source
NSFW_KEYWORDS == <<>>

\* UNSAFE_PATTERNS: each pattern is a case-insensitive alternation of literals
UNSAFE_PATTERNS ==
    <<[pattern |-> "(?i)(violence|weapon|drug)",
       words   |-> {W_violence, W_weapon, W_drug}],
      [pattern |-> "(?i)(explicit|mature|adult)",
       words   |-> {W_explicit, W_mature, W_adult}]>>

\* AGE_INAPPROPRIATE_CONTENT
AGE_INAPPROPRIATE_CONTENT ==
    <<[pattern |-> "(?i)(fear|horror|scary)",
       words   |-> {W_fear, W_horror, W_scary}],
      [pattern |-> "(?i)(complex|advanced|difficult)",
       words   |-> {W_complex, W_advanced, W_difficult}]>>

\* pattern.search(text) for a compiled (?i) alternation
PatternSearch(p, text) == \E w \in p.words : Contains(StrLower(text), w)

_normalize_text(text) == NFKC(text)

ValidationResult(valid, msg, det) ==
    [is_valid |-> valid, message |-> msg, details |-> det]

\* A mutant of FirstMatch: the last pattern of ps that text matches.
LastMatch(ps, text) ==
    IF \E i \in DOMAIN ps : PatternSearch(ps[i], text)
    THEN CHOOSE i \in DOMAIN ps :
             PatternSearch(ps[i], text) /\ \A j \in (i + 1)..Len(ps) : ~PatternSearch(ps[j], text)
    ELSE 0

\* The index of the first pattern of ps that text matches, 0 when none does.
FirstMatch(ps, text) ==
    IF \E i \in DOMAIN ps : PatternSearch(ps[i], text)
    THEN CHOOSE i \in DOMAIN ps :
             PatternSearch(ps[i], text) /\ \A j \in 1..(i - 1) : ~PatternSearch(ps[j], text)
    ELSE 0

\* ContentValidator._check_content_safety
_check_content_safety(text) ==
    LET normalized_text == _normalize_text(StrLower(text))
        kw == IF \E i \in DOMAIN NSFW_KEYWORDS : Contains(normalized_text, NSFW_KEYWORDS[i])
              THEN CHOOSE i \in DOMAIN NSFW_KEYWORDS :
                       /\ Contains(normalized_text, NSFW_KEYWORDS[i])
                       /\ \A j \in 1..(i - 1) : ~Contains(normalized_text, NSFW_KEYWORDS[j])
              ELSE 0
        u == FirstMatch(UNSAFE_PATTERNS, normalized_text)
        a == FirstMatch(AGE_INAPPROPRIATE_CONTENT, normalized_text)
    IN  IF kw # 0
        THEN ValidationResult(FALSE, "Content contains inappropriate keywords", "keyword")
        ELSE IF u # 0
        THEN ValidationResult(FALSE, "Content contains unsafe patterns",
                              UNSAFE_PATTERNS[u].pattern)
        ELSE IF a # 0
        THEN ValidationResult(FALSE, "Content not suitable for target age group",
                              AGE_INAPPROPRIATE_CONTENT[a].pattern)
        ELSE ValidationResult(TRUE, "Content passed safety checks", None)

\* Validation constants of utils/validators.py
MAX_PROMPT_LENGTH_TOKENS == 4000
MIN_PROMPT_LENGTH == 10

\* ContentValidator.validate_story_prompt (the argument is a str)
validate_story_prompt(prompt0) ==
    LET prompt == Strip(prompt0)
        safety_result == _check_content_safety(prompt)
    IN  IF Len(prompt) < MIN_PROMPT_LENGTH
        THEN ValidationResult(FALSE, "Prompt too short", "min_length")
        ELSE IF Len(prompt) > MAX_PROMPT_LENGTH_TOKENS
        THEN ValidationResult(FALSE, "Prompt exceeds maximum length", "max_length")
        ELSE IF ~safety_result.is_valid
        THEN safety_result
        ELSE ValidationResult(TRUE, "Prompt validation successful", None)

(***************************************************************************)
(* models/illustration_request.py                                          *)
(***************************************************************************)
SUPPORTED_STYLES ==
    <<STYLE_children_s_book, STYLE_watercolor, STYLE_digital_art, STYLE_cartoon,
      STYLE_realistic>>

MAX_PROMPT_LENGTH == 1000
MIN_IMAGE_DIMENSION == 256
MAX_IMAGE_DIMENSION == 1024
DEFAULT_SIZE == <<512, 512>>

\* UNSAFE_PATTERN = r'[<>&;{}\[\]\\]'
UNSAFE_PATTERN == {"<", ">", "&", ";", "{", "}", "[", "]", "\\"}

Ok(v) == [ok |-> TRUE, value |-> v]
\* raise AIServiceError(message=msg, details={key: ...}, ...)
Err(msg, key) == [ok |-> FALSE, error |-> "AIServiceError", message |-> msg, details |-> key]

IsSafeChar(c) == c \notin UNSAFE_PATTERN

HtmlEscapeChar(c) ==
    CASE c = "&"  -> E_amp
      [] c = "<"  -> E_lt
      [] c = ">"  -> E_gt
      [] c = "\"" -> E_quot
      [] c = "'"  -> E_apos
      [] OTHER    -> <<c>>

\* sanitize_string
sanitize_string(value) ==
    LET removed   == SelectSeq(value, IsSafeChar)
        collapsed == JoinSplit(removed)
        escaped   == Flatten([i \in DOMAIN collapsed |-> HtmlEscapeChar(collapsed[i])])
    IN  Strip(escaped)

\* validate_string_length
validate_string_length(value, min_length, max_length) ==
    IF value = <<>>
    THEN Err("Invalid string input", "value")
    ELSE LET v == Strip(value) IN
         IF ~(min_length <= Len(v) /\ Len(v) <= max_length)
         THEN Err("String length must be between " \o ToString(min_length) \o " and "
                  \o ToString(max_length) \o " characters", "value_length")
         ELSE Ok(sanitize_string(v))

\* validate_image_dimensions of models/illustration_request.py; the
\* aspect ratio width / height is compared as 2*width >= height and
\* width <= 2*height.
validate_image_dimensions(dimensions) ==
    LET width == dimensions[1]
        height == dimensions[2]
    IN  IF ~(/\ MIN_IMAGE_DIMENSION <= width /\ width <= MAX_IMAGE_DIMENSION
             /\ MIN_IMAGE_DIMENSION <= height /\ height <= MAX_IMAGE_DIMENSION)
        THEN Err("Image dimensions must be between 256 and 1024 pixels", "width,height")
        ELSE IF ~(2 * width >= height /\ width <= 2 * height)
        THEN Err("Image aspect ratio must be between 1:2 and 2:1", "aspect_ratio")
        ELSE Ok(dimensions)

\* IllustrationRequest.validate_prompt: length check and sanitization only
validate_prompt(value) == validate_string_length(value, MIN_PROMPT_LENGTH, MAX_PROMPT_LENGTH)

\* A mutant of validate_style: the value is returned as it was given.
validate_style_as_given(value) ==
    IF value = <<>> \/ ~\E i \in DOMAIN SUPPORTED_STYLES :
                           StrLower(SUPPORTED_STYLES[i]) = StrLower(value)
    THEN Err("Invalid illustration style", "supported_styles")
    ELSE Ok(value)

\* IllustrationRequest.validate_style
validate_style(value) ==
    IF value = <<>> \/ ~\E i \in DOMAIN SUPPORTED_STYLES :
                           StrLower(SUPPORTED_STYLES[i]) = StrLower(value)
    THEN Err("Invalid illustration style", "supported_styles")
    ELSE Ok(SUPPORTED_STYLES[CHOOSE i \in DOMAIN SUPPORTED_STYLES :
                /\ StrLower(SUPPORTED_STYLES[i]) = StrLower(value)
                /\ \A j \in 1..(i - 1) : StrLower(SUPPORTED_STYLES[j]) # StrLower(value)])

\* A mutant of validate_size: dimensions need not be multiples of 8.
validate_size_any_multiple(value) == validate_image_dimensions(value)

\* IllustrationRequest.validate_size
validate_size(value) ==
    LET dimensions == validate_image_dimensions(value) IN
    IF ~dimensions.ok THEN dimensions
    ELSE IF value[1] % 8 # 0 \/ value[2] % 8 # 0
    THEN Err("Image dimensions must be multiples of 8", "width,height")
    ELSE dimensions

\* The Field(min_length, max_length) constraint pydantic checks on the raw
\* prompt before the validator runs; its failure is collected, not raised.
PromptFieldOk(raw) == MIN_PROMPT_LENGTH <= Len(raw) /\ Len(raw) <= MAX_PROMPT_LENGTH

\* IllustrationRequest(**fields): the fields are validated in the order of
\* their declaration; an AIServiceError of a validator leaves at once, a
\* collected pydantic error is raised as ValidationError after the last field.
IllustrationRequest(fields) ==
    LET p  == IF PromptFieldOk(fields.prompt) THEN validate_prompt(fields.prompt)
              ELSE Ok(<<>>)
        st == validate_style(fields.style)
        sz == validate_size(fields.size)
    IN  IF ~p.ok THEN p
        ELSE IF ~st.ok THEN st
        ELSE IF ~sz.ok THEN sz
        ELSE IF ~PromptFieldOk(fields.prompt)
        THEN [ok |-> FALSE, error |-> "ValidationError",
              message |-> IF Len(fields.prompt) < MIN_PROMPT_LENGTH
                          THEN "ensure this value has at least "
                               \o ToString(MIN_PROMPT_LENGTH) \o " characters"
                          ELSE "ensure this value has at most "
                               \o ToString(MAX_PROMPT_LENGTH) \o " characters",
              details |-> "prompt"]
        ELSE Ok([prompt |-> p.value, style |-> st.value, size |-> sz.value,
                 enhance_faces |-> fields.enhance_faces])

(***************************************************************************)
(* utils/error_handler.py: the two error handlers.  Both are wrapped by    *)
(* retry(); their bodies raise nothing, so a call returns the HTTPException *)
(* built at the first attempt.                                             *)
(***************************************************************************)
HTTPException(status, msg, original) ==
    [kind |-> "raise", type |-> "HTTPException", status |-> status, message |-> msg,
     original_error |-> original]

\* A mutant of handle_openai_error: the default of error_mapping.get is the
\* rate-limit entry.
handle_openai_error_default_429(error) ==
    CASE error = "openai.error.InvalidRequestError"
             -> HTTPException(400, ERROR_MESSAGES.INVALID_REQUEST, error)
      [] error = "openai.error.Timeout"
             -> HTTPException(504, ERROR_MESSAGES.TIMEOUT, error)
      [] error = "openai.error.ContentFilterError"
             -> HTTPException(422, ERROR_MESSAGES.CONTENT_FILTER, error)
      [] error = "openai.error.APIError"
             -> HTTPException(500, ERROR_MESSAGES.API_ERROR, error)
      [] OTHER -> HTTPException(429, ERROR_MESSAGES.RATE_LIMIT, error)

\* handle_openai_error: error_mapping.get(type(error), (500, API_ERROR))
handle_openai_error(error) ==
    CASE error = "openai.error.RateLimitError"
             -> HTTPException(429, ERROR_MESSAGES.RATE_LIMIT, error)
      [] error = "openai.error.InvalidRequestError"
             -> HTTPException(400, ERROR_MESSAGES.INVALID_REQUEST, error)
      [] error = "openai.error.APIError"
             -> HTTPException(500, ERROR_MESSAGES.API_ERROR, error)
      [] error = "openai.error.Timeout"
             -> HTTPException(504, ERROR_MESSAGES.TIMEOUT, error)
      [] error = "openai.error.ContentFilterError"
             -> HTTPException(422, ERROR_MESSAGES.CONTENT_FILTER, error)
      [] OTHER -> HTTPException(500, ERROR_MESSAGES.API_ERROR, error)

\* A mutant of handle_stable_diffusion_error: the handler with an entry for
\* the deadline fault.
handle_stable_diffusion_error_timeout(error) ==
    CASE error = "stability.RateLimitError"
             -> HTTPException(429, ERROR_MESSAGES.RATE_LIMIT, error)
      [] error = "asyncio.TimeoutError"
             -> HTTPException(504, ERROR_MESSAGES.TIMEOUT, error)
      [] OTHER -> HTTPException(500, ERROR_MESSAGES.API_ERROR, error)

\* handle_stable_diffusion_error
handle_stable_diffusion_error(error) ==
    CASE error = "stability.RateLimitError"
             -> HTTPException(429, ERROR_MESSAGES.RATE_LIMIT, error)
      [] error = "stability.InvalidRequestError"
             -> HTTPException(400, ERROR_MESSAGES.INVALID_REQUEST, error)
      [] error = "stability.ServerError"
             -> HTTPException(500, ERROR_MESSAGES.API_ERROR, error)
      [] error = "stability.ResourceExhaustedError"
             -> HTTPException(429, ERROR_MESSAGES.RESOURCE_EXHAUSTED, error)
      [] OTHER -> HTTPException(500, ERROR_MESSAGES.API_ERROR, error)

(***************************************************************************)
(* Illustration requests: models/illustration_request.py, the constructor, *)
(* and services/stable_diffusion_service.py,                               *)
(* StableDiffusionService.generate_illustration, for the requests of Tasks *)
(* awaited on one event loop.  `thread` is the task the event-loop thread  *)
(* is running, 0 when it is free: a coroutine gives the thread up only at  *)
(* an await, and a synchronous call keeps it for as long as the call lasts. *)
(* The runs are of the service called directly; the endpoint of            *)
(* controllers/illustration_controller.py is not part of them.             *)
(***************************************************************************)
Tasks == {1, 2}

\* MAX_RETRIES and RETRY_DELAY of services/stable_diffusion_service.py
SD_MAX_RETRIES == 3
SD_RETRY_DELAY == 10

NoRequest == [prompt |-> <<>>, style |-> <<>>, size |-> <<0, 0>>, enhance_faces |-> FALSE]
NoResult == [kind |-> "none"]

\* A request_id written as a literal in the source.
FixedId(text) == [kind |-> "fixed", text |-> text, draw |-> 0]
\* str(uuid.uuid4()): the identifier of the n-th call; no two calls give the
\* same identifier.
Uuid4(n) == [kind |-> "uuid4", text |-> "", draw |-> n]
\* The error has no request_id attribute (pydantic's ValidationError).
NoId == [kind |-> "absent", text |-> "", draw |-> 0]

\* The request_id of the error a failed construction raises: the validators
\* of IllustrationRequest raise AIServiceError(request_id="validation_error"),
\* the field constraints of pydantic raise a ValidationError.
ConstructionId(error) ==
    IF error = "AIServiceError" THEN FixedId("validation_error") ELSE NoId

Fields(p, st, sz) == [prompt |-> p, style |-> st, size |-> sz, enhance_faces |-> TRUE]

\* The requests the model submits.
SampleIllustrations ==
    {Fields(P_dragon, IN_childrens, DEFAULT_SIZE),
     Fields(P_weapon, IN_Watercolor, DEFAULT_SIZE),
     Fields(P_split, STYLE_cartoon, <<1024, 512>>),
     Fields(P_scary, STYLE_realistic, <<512, 768>>),
     Fields(P_short, STYLE_cartoon, DEFAULT_SIZE),
     Fields(P_dragon, IN_oil, DEFAULT_SIZE),
     Fields(P_dragon, STYLE_digital_art, <<100, 100>>)}

\* What self._client.generate and the processing of its answers can do: an
\* answer with an artifact, answers without artifacts, or a fault.
ImageFaults == StabilityFaults \cup OtherFaults
ProviderOutcomes == {"image", "no_artifacts"} \cup ImageFaults

\* The exception an attempt ends with: `raise AIServiceError("No artifacts
\* generated")` when no answer held an artifact, the provider's fault otherwise.
AttemptError(o) == IF o = "no_artifacts" THEN "AIServiceError" ELSE o

\* format_prompt: f"{prompt}, {style_prompt}, high quality, detailed,
\* professional, {quality_keywords}"; the literal parts are kept whole.
format_prompt(prompt, style) ==
    prompt \o <<", ", <<"STYLE_PROMPTS", style>>,
                ", high quality, detailed, professional",
                ", masterpiece, highly detailed, best quality, professional">>

\* The prompt argument of the self._client.generate calls of request t.
SentPrompt(t) == format_prompt(i_req[t].prompt, i_req[t].style)

\* IllustrationRequest(**fields) for each of the requests submitted.
IllusBuilt == [raw \in SampleIllustrations |-> IllustrationRequest(raw)]

\* Nothing has run: each task holds the fields of its request.
IllusInit ==
    /\ i_raw \in [Tasks -> SampleIllustrations]
    /\ i_req = [t \in Tasks |-> NoRequest]
    /\ i_pc = [t \in Tasks |-> "received"]
    /\ i_attempt = [t \in Tasks |-> 0]
    /\ i_calls = [t \in Tasks |-> 0]
    /\ i_sleeps = [t \in Tasks |-> <<>>]
    /\ i_last_error = [t \in Tasks |-> None]
    /\ i_result = [t \in Tasks |-> NoResult]
    /\ i_request_id = [t \in Tasks |-> NoId]
    /\ i_uuids = 0
    /\ thread = 0

\* IllustrationRequest(**fields): a validator's error ends the request
\* before the service is called.
IllusConstruct(t) ==
    /\ thread = 0
    /\ i_pc[t] = "received"
    /\ LET r == IllusBuilt[i_raw[t]] IN
       IF r.ok
       THEN /\ i_req' = [i_req EXCEPT ![t] = r.value]
            /\ i_pc' = [i_pc EXCEPT ![t] = "constructed"]
            /\ UNCHANGED <<i_result, i_request_id>>
       ELSE /\ i_pc' = [i_pc EXCEPT ![t] = "done"]
            /\ i_result' = [i_result EXCEPT ![t] =
                   [kind |-> "raise", type |-> r.error, message |-> r.message,
                    details |-> r.details]]
            /\ i_request_id' = [i_request_id EXCEPT ![t] = ConstructionId(r.error)]
            /\ UNCHANGED i_req
    /\ UNCHANGED <<i_raw, i_attempt, i_calls, i_sleeps, i_last_error, i_uuids, thread>>
    /\ UNCHANGED illus_frame

\* A mutant of IllusCallKeepsThread: the provider call is awaited.
IllusCallAwaited(t) == 0

\* answers = self._client.generate(...): a plain call inside the coroutine,
\* so the event-loop thread stays with task t until the call is over.
IllusCallKeepsThread(t) == t

\* generate_illustration of the service, up to the first call of the
\* provider.
IllusDispatch(t) ==
    /\ thread = 0
    /\ i_pc[t] = "constructed"
    /\ i_pc' = [i_pc EXCEPT ![t] = "in_provider"]
    /\ i_calls' = [i_calls EXCEPT ![t] = @ + 1]
    /\ thread' = IllusCallKeepsThread(t)
    /\ UNCHANGED <<i_raw, i_req, i_attempt, i_sleeps, i_last_error, i_result>>
    /\ UNCHANGED <<i_request_id, i_uuids>>
    /\ UNCHANGED illus_frame

\* The provider answered with an artifact: enhance, and return the bytes of
\* the image.
IllusSucceed(t) ==
    /\ i_pc[t] = "in_provider"
    /\ thread \in {0, t}
    /\ i_pc' = [i_pc EXCEPT ![t] = "done"]
    /\ i_result' = [i_result EXCEPT ![t] =
           [kind |-> "bytes", attempts |-> i_calls[t]]]
    /\ thread' = 0
    /\ UNCHANGED <<i_raw, i_req, i_attempt, i_calls, i_sleeps, i_last_error>>
    /\ UNCHANGED <<i_request_id, i_uuids>>
    /\ UNCHANGED illus_frame

\* A mutant of IllusFail: the outer handler logs the error and raises
\* nothing, so the coroutine ends without a value and without an error.
IllusFailSwallowed(t, o) ==
    /\ i_pc[t] = "in_provider"
    /\ thread \in {0, t}
    /\ i_attempt[t] = SD_MAX_RETRIES - 1
    /\ i_last_error' = [i_last_error EXCEPT ![t] = AttemptError(o)]
    /\ i_pc' = [i_pc EXCEPT ![t] = "done"]
    /\ thread' = 0
    /\ UNCHANGED <<i_raw, i_req, i_attempt, i_calls, i_sleeps, i_result>>
    /\ UNCHANGED <<i_request_id, i_uuids>>
    /\ UNCHANGED illus_frame

\* An attempt failed and it was the last one (attempt == MAX_RETRIES - 1):
\* raise; the outer handler raises handle_stable_diffusion_error(e, context),
\* whose request_id is str(uuid.uuid4()).
IllusFail(t, o) ==
    /\ i_pc[t] = "in_provider"
    /\ thread \in {0, t}
    /\ i_attempt[t] = SD_MAX_RETRIES - 1
    /\ i_last_error' = [i_last_error EXCEPT ![t] = AttemptError(o)]
    /\ i_result' = [i_result EXCEPT ![t] =
           handle_stable_diffusion_error(AttemptError(o))]
    /\ i_uuids' = i_uuids + 1
    /\ i_request_id' = [i_request_id EXCEPT ![t] = Uuid4(i_uuids + 1)]
    /\ i_pc' = [i_pc EXCEPT ![t] = "done"]
    /\ thread' = 0
    /\ UNCHANGED <<i_raw, i_req, i_attempt, i_calls, i_sleeps>>
    /\ UNCHANGED illus_frame

\* An attempt failed and attempts remain:
\* await asyncio.sleep(RETRY_DELAY * (2 ** attempt)) gives the thread up.
IllusBackoff(t, o) ==
    /\ i_pc[t] = "in_provider"
    /\ thread \in {0, t}
    /\ i_attempt[t] < SD_MAX_RETRIES - 1
    /\ i_last_error' = [i_last_error EXCEPT ![t] = AttemptError(o)]
    /\ i_sleeps' = [i_sleeps EXCEPT ![t] = Append(@, wait_time(SD_RETRY_DELAY, i_attempt[t]))]
    /\ i_pc' = [i_pc EXCEPT ![t] = "backoff"]
    /\ thread' = 0
    /\ UNCHANGED <<i_raw, i_req, i_attempt, i_calls, i_result>>
    /\ UNCHANGED <<i_request_id, i_uuids>>
    /\ UNCHANGED illus_frame

\* The sleep is over and the loop resumes the task: the next iteration
\* calls the provider.
IllusResume(t) ==
    /\ thread = 0
    /\ i_pc[t] = "backoff"
    /\ i_attempt' = [i_attempt EXCEPT ![t] = @ + 1]
    /\ i_pc' = [i_pc EXCEPT ![t] = "in_provider"]
    /\ i_calls' = [i_calls EXCEPT ![t] = @ + 1]
    /\ thread' = IllusCallKeepsThread(t)
    /\ UNCHANGED <<i_raw, i_req, i_sleeps, i_last_error, i_result>>
    /\ UNCHANGED <<i_request_id, i_uuids>>
    /\ UNCHANGED illus_frame

IllusNext ==
    \/ \E t \in Tasks : IllusConstruct(t)
    \/ \E t \in Tasks : IllusDispatch(t)
    \/ \E t \in Tasks : IllusSucceed(t)
    \/ \E t \in Tasks, o \in ProviderOutcomes \ {"image"} : IllusFail(t, o)
    \/ \E t \in Tasks, o \in ProviderOutcomes \ {"image"} : IllusBackoff(t, o)
    \/ \E t \in Tasks : IllusResume(t)

(***************************************************************************)
(* models/story_request.py                                                 *)
(***************************************************************************)
THEME_Magical == <<"M", "a", "g", "i", "c", "a", "l">>
THEME_Adventure == <<"A", "d", "v", "e", "n", "t", "u", "r", "e">>
THEME_Educational == <<"E", "d", "u", "c", "a", "t", "i", "o", "n", "a",
    "l">>
THEME_Fantasy == <<"F", "a", "n", "t", "a", "s", "y">>
THEME_Nature == <<"N", "a", "t", "u", "r", "e">>
THEME_Science == <<"S", "c", "i", "e", "n", "c", "e">>
THEME_Space == <<"S", "p", "a", "c", "e">>
THEME_Ocean == <<"O", "c", "e", "a", "n">>
THEME_Friendship == <<"F", "r", "i", "e", "n", "d", "s", "h", "i", "p">>
THEME_Family == <<"F", "a", "m", "i", "l", "y">>
N_Mia == <<"M", "i", "a">>
N_M1a == <<"M", "1", "a">>
N_Max == <<"M", "a", "x">>
N_J == <<"J">>
N_MiaLee == <<" ", "M", "i", "a", "\t", " ", "L", "e", "é", " ">>
N_Fearne == <<"F", "e", "a", "r", "n", "e">>
T_Pirates == <<"P", "i", "r", "a", "t", "e", "s">>
I_space == <<"s", "p", "a", "c", "e">>
I_dinosaurs == <<"d", "i", "n", "o", "s", "a", "u", "r", "s">>
I_art == <<"a", "r", "t">>
I_drugs == <<"d", "r", "u", "g", "s">>
I_a == <<"a">>
I_rock_n_roll == <<"r", "o", "c", "k", " ", "'", "n", "'", " ", "r", "o",
    "l", "l">>
NOTE_science == <<"L", "o", "v", "e", "s", " ", "s", "c", "i", "e", "n",
    "c", "e">>

SUPPORTED_THEMES ==
    <<THEME_Magical, THEME_Adventure, THEME_Educational, THEME_Fantasy,
      THEME_Nature, THEME_Science, THEME_Space, THEME_Ocean,
      THEME_Friendship, THEME_Family>>

MAX_CHARACTER_NAME_LENGTH == 50
MIN_AGE == 3
MAX_AGE == 12
MAX_INTERESTS == 5
MAX_ADDITIONAL_NOTES_LENGTH == 500

\* Characters of Unicode category C (control) in the model.
IsControl(c) == c \in {"\t", "\n"}
NotControl(c) == ~IsControl(c)

\* The texts of the two patterns, r'^[\p{L}\s-]{1,50}$' and
\* r'^[\p{L}\s-]{1,30}$', character by character.
NAME_PATTERN_TEXT ==
    <<"^", "[", "\\", "p", "{", "L", "}", "\\", "s", "-", "]",
      "{", "1", ",", "5", "0", "}", "$">>
INTEREST_PATTERN_TEXT ==
    <<"^", "[", "\\", "p", "{", "L", "}", "\\", "s", "-", "]",
      "{", "1", ",", "3", "0", "}", "$">>

\* The letters that may follow a backslash in a pattern of Python's re.
KnownEscapes ==
    {"a", "b", "f", "n", "r", "t", "v", "d", "D", "s", "S", "w", "W", "x",
     "u", "U", "N", "A", "B", "Z"}

\* re.compile(pattern): the parser raises re.error at the first backslash
\* followed by an ASCII letter that is no escape of the module, giving the
\* offset of the backslash (from 0); re has no \p.
re_compile(pattern) ==
    LET bad == {i \in 1..(Len(pattern) - 1) :
                   /\ pattern[i] = "\\"
                   /\ (i = 1 \/ pattern[i - 1] # "\\")
                   /\ pattern[i + 1] \in Range(UpperCase) \cup Range(LowerCase)
                   /\ pattern[i + 1] \notin KnownEscapes}
    IN  IF bad = {}
        THEN [ok |-> TRUE, pattern |-> pattern]
        ELSE LET i == CHOOSE k \in bad : \A m \in bad : k <= m
             IN  [ok |-> FALSE, error |-> "re.error",
                  message |-> "bad escape \\" \o pattern[i + 1]
                              \o " at position " \o ToString(i - 1)]

\* NAME_PATTERN = re.compile(r'^[\p{L}\s-]{1,50}$', re.UNICODE)
NAME_PATTERN == re_compile(NAME_PATTERN_TEXT)
\* INTEREST_PATTERN = re.compile(r'^[\p{L}\s-]{1,30}$', re.UNICODE)
INTEREST_PATTERN == re_compile(INTEREST_PATTERN_TEXT)

\* import of models.story_request: the statements of the module run in
\* order and the first one that raises ends the import with its exception;
\* no module and no class StoryRequest is left behind.  The constants above
\* are bound first, then the two patterns are compiled.
import_story_request ==
    IF ~NAME_PATTERN.ok THEN NAME_PATTERN
    ELSE IF ~INTEREST_PATTERN.ok THEN INTEREST_PATTERN
    ELSE [ok |-> TRUE]

\* StoryRequest.sanitize_input
sanitize_input(input_string) ==
    LET normalized == NFKC(input_string)
        sanitized  == SelectSeq(normalized, NotControl)
    IN  JoinSplit(sanitized)

FieldErr(msg, fld) == [ok |-> FALSE, error |-> "AIServiceError", message |-> msg, field |-> fld]
Passed == [ok |-> TRUE]

validate_age(r) ==
    IF ~(MIN_AGE <= r.age /\ r.age <= MAX_AGE)
    THEN FieldErr("Age must be between 3 and 12 years", "age")
    ELSE Passed

validate_theme(r) ==
    IF r.theme = <<>>
    THEN FieldErr("Theme is required", "theme")
    ELSE IF r.theme \notin Range(SUPPORTED_THEMES)
    THEN FieldErr("Invalid theme selected", "theme")
    ELSE Passed

\* A mutant of Dedupe: the last occurrence of each entry is the one kept.
RECURSIVE DedupeKeepLast(_)
DedupeKeepLast(xs) ==
    IF xs = <<>> THEN <<>>
    ELSE LET rest == DedupeKeepLast(Tail(xs))
         IN  IF Head(xs) \in Range(rest) THEN rest ELSE <<Head(xs)>> \o rest

\* list(dict.fromkeys(xs)): the first occurrence of each entry, in order
RECURSIVE Dedupe(_)
Dedupe(xs) ==
    IF xs = <<>> THEN <<>>
    ELSE LET init == Dedupe(SubSeq(xs, 1, Len(xs) - 1))
             last == xs[Len(xs)]
         IN  IF last \in Range(init) THEN init ELSE Append(init, last)

\* additional_notes of a request that carries none (Python's None)
NoNotes == <<None>>

validate_additional_notes(r) ==
    IF r.additional_notes = NoNotes THEN Passed
    ELSE IF Len(r.additional_notes) > MAX_ADDITIONAL_NOTES_LENGTH
    THEN FieldErr("Additional notes must not exceed 500 characters", "additional_notes")
    ELSE Passed

\* __post_init__, the sanitizing half: the name, the theme and every interest
\* are sanitized, the notes when they are truthy.
Sanitized(fields) ==
    [character_name   |-> sanitize_input(fields.character_name),
     age              |-> fields.age,
     theme            |-> sanitize_input(fields.theme),
     interests        |-> [i \in DOMAIN fields.interests |->
                              sanitize_input(fields.interests[i])],
     additional_notes |-> IF fields.additional_notes \in {NoNotes, <<>>}
                          THEN fields.additional_notes
                          ELSE sanitize_input(fields.additional_notes)]

\* A mutant of StoryRequest: the class is there and a call of it binds the
\* arguments without running __post_init__.
StoryRequestUnvalidated(fields) == [ok |-> TRUE, value |-> fields]

\* `from models.story_request import StoryRequest` and then
\* StoryRequest(**fields): the import comes first and its exception is what
\* the program gets, whatever the fields.
StoryRequest(fields) == import_story_request

StoryFields(n, a, t, is, notes) ==
    [character_name |-> n, age |-> a, theme |-> t, interests |-> is,
     additional_notes |-> notes]

NoStory == StoryFields(<<>>, 0, <<>>, <<>>, NoNotes)

\* Bodies of story requests.
SampleStories ==
    {StoryFields(N_Mia, 8, THEME_Adventure, <<I_space, I_dinosaurs>>, NoNotes),
     StoryFields(N_Mia, 2, THEME_Adventure, <<I_space>>, NoNotes),
     StoryFields(N_Mia, 13, T_Pirates, <<>>, NoNotes),
     StoryFields(N_Max, 7, THEME_Science, <<I_drugs>>, NOTE_science),
     StoryFields(N_M1a, 8, THEME_Adventure, <<I_space>>, NoNotes),
     StoryFields(N_Max, 12, T_Pirates, <<I_space>>, NoNotes),
     StoryFields(N_Max, 3, THEME_Ocean, <<>>, NoNotes),
     StoryFields(N_J, 5, THEME_Space, <<I_a>>, NoNotes),
     StoryFields(N_MiaLee, 6, THEME_Family, <<I_space, I_space, I_art>>, NOTE_science),
     StoryFields(N_Fearne, 9, THEME_Nature, <<I_art>>, NoNotes),
     StoryFields(N_Mia, 4, THEME_Magical, <<I_rock_n_roll>>, NoNotes),
     StoryFields(N_Max, 10, THEME_Friendship, <<I_art, I_dinosaurs>>, NOTE_science)}

(***************************************************************************)
(* The modules of the story endpoint as Python loads them.                 *)
(***************************************************************************)
\* A call that binds fewer arguments than the function has required
\* positional parameters: Python raises TypeError before the body runs.
MissingArgument(func, param) ==
    [ok |-> FALSE, error |-> "TypeError",
     message |-> func \o "() missing 1 required positional argument: '"
                 \o param \o "'"]

\* `@handler` above a def calls handler(function) when the def is executed.
\* Both handlers take (error, context) and are wrapped by retry(): the call
\* func(*args) of the wrapper raises the TypeError of the missing argument,
\* which _is_retryable_error does not know, and the wrapper raises it again.
ApplyAsDecorator(handler) ==
    LET e == MissingArgument(handler, "context")
    IN  IF is_retryable_error(e.error)
        THEN [ok |-> FALSE, error |-> "AIServiceError",
              message |-> ERROR_MESSAGES.RETRY_FAILED]
        ELSE e

\* import of services.openai_service: line 22 imports models.story_request;
\* the body of class OpenAIService holds `@handle_openai_error` at line 74.
import_openai_service ==
    IF ~import_story_request.ok THEN import_story_request
    ELSE ApplyAsDecorator("handle_openai_error")

\* import of controllers.story_controller: line 20 imports
\* models.story_request, line 21 services.openai_service; line 131 is
\* `@handle_openai_error` above generate_story.
import_story_controller ==
    IF ~import_story_request.ok THEN import_story_request
    ELSE IF ~import_openai_service.ok THEN import_openai_service
    ELSE ApplyAsDecorator("handle_openai_error")

\* What a program that needed the module is left with: the exception of
\* the import.
ImportFailure(e) == [kind |-> "import_error", type |-> e.error, message |-> e.message]

(***************************************************************************)
(* The error handlers at work: utils/error_handler.py, handle_openai_error *)
(* and handle_stable_diffusion_error called on the faults their callers    *)
(* catch, and _is_retryable_error on the same faults.                      *)
(***************************************************************************)
Providers == {"openai", "stability"}

\* The exceptions handed to each handler: the provider's own classes, the
\* built-in ones, the service's AIServiceError and, for the illustration
\* handler, an HTTPException (the error the handler itself builds).
HandlerFaults(provider) ==
    IF provider = "openai"
    THEN OpenAIFaults \cup OtherFaults \cup {"AIServiceError"}
    ELSE StabilityFaults \cup OtherFaults \cup {"AIServiceError", "HTTPException"}

Handle(provider, error) ==
    IF provider = "openai" THEN handle_openai_error(error)
    ELSE handle_stable_diffusion_error(error)

ClassInit == c_log = <<>>

Classify(provider, error) ==
    /\ Len(c_log) < MaxClassified
    /\ c_log' = Append(c_log, [provider  |-> provider,
                               error     |-> error,
                               raised    |-> Handle(provider, error),
                               retryable |-> is_retryable_error(error)])
    /\ UNCHANGED class_frame

ClassNext == \E provider \in Providers : \E error \in HandlerFaults(provider) :
                 Classify(provider, error)

(***************************************************************************)
(* The content validator at work: utils/validators.py, ContentValidator    *)
(* called on texts in which a word stands alone or between other text, in  *)
(* lower case, in upper case or capitalized.                               *)
(***************************************************************************)
PRE_a == <<"a", " ">>
PRE_the_big == <<"T", "h", "e", " ", "b", "i", "g", " ">>
SUF_s == <<"s">>
SUF_scary_weapon == <<" ", "s", "c", "a", "r", "y", " ", "w", "e", "a", "p",
    "o", "n">>
SUF_adult == <<" ", "f", "o", "r", " ", "a", "n", " ", "a", "d", "u", "l",
    "t">>
SUF_town == <<" ", "i", "n", " ", "t", "h", "e", " ", "o", "l", "d", " ",
    "t", "o", "w", "n">>
CORE_garden == <<"g", "a", "r", "d", "e", "n">>
CORE_kind_dragon == <<"k", "i", "n", "d", " ", "d", "r", "a", "g", "o",
    "n">>
CORE_ordinal == <<"m", "ª", "t", "u", "r", "e">>
CORE_ordinal_upper == <<"H", "O", "R", "R", "º", "R">>


\* The literals of the two pattern lists.
PatternWords ==
    UNION ({UNSAFE_PATTERNS[i].words : i \in DOMAIN UNSAFE_PATTERNS}
           \cup {AGE_INAPPROPRIATE_CONTENT[i].words : i \in DOMAIN AGE_INAPPROPRIATE_CONTENT})

\* Texts that hold a match of a pattern, and texts that hold none.
UnsafeCores ==
    PatternWords \cup {StrUpper(w) : w \in PatternWords}
                 \cup {Capitalize(w) : w \in PatternWords}
                 \cup {CORE_ordinal, CORE_ordinal_upper}
CleanCores == {CORE_garden, CORE_kind_dragon}
Prefixes == {<<>>, PRE_a, PRE_the_big}
Suffixes == {<<>>, SUF_s, SUF_town, SUF_scary_weapon, SUF_adult}

NoValidation == ValidationResult(FALSE, "none", "none")

SafetyInit ==
    /\ v_parts \in [prefix : Prefixes, core : UnsafeCores \cup CleanCores, suffix : Suffixes]
    /\ v_text = v_parts.prefix \o v_parts.core \o v_parts.suffix
    /\ v_pc = "pending"
    /\ v_safety = NoValidation
    /\ v_result = NoValidation

CheckPrompt ==
    /\ v_pc = "pending"
    /\ v_safety' = _check_content_safety(v_text)
    /\ v_result' = validate_story_prompt(v_text)
    /\ v_pc' = "checked"
    /\ UNCHANGED <<v_parts, v_text>>
    /\ UNCHANGED safety_frame

SafetyNext == CheckPrompt

(***************************************************************************)
(* A StoryRequest under construction: models/story_request.py, imported   *)
(* and its constructor called on keyword arguments.                       *)
(***************************************************************************)
IN_Ocean_spaced == <<" ", "O", "c", "e", "a", "n", " ">>

\* Notes one character over the limit.
LongNotes == [i \in 1..(MAX_ADDITIONAL_NOTES_LENGTH + 1) |-> "x"]

NameArgs == {N_Mia, N_M1a, <<>>, N_MiaLee}
AgeArgs == (MIN_AGE - AgeMargin)..(MAX_AGE + AgeMargin)
ThemeArgs == {THEME_Adventure, T_Pirates, <<>>, IN_Ocean_spaced}
IN_space_spaced == <<" ", "s", "p", "a", "c", "e">>
InterestsArgs ==
    {<<>>, <<I_space>>, <<I_space, I_art, I_space>>,
     <<I_a, I_a, I_a, I_a, I_a, I_a>>, <<I_art, I_rock_n_roll>>,
     <<I_art, IN_space_spaced, I_art, I_space, I_dinosaurs>>}
NotesArgs == {NoNotes, <<>>, NOTE_science, LongNotes}

NoError == [ok |-> TRUE]
NoDict == [character_name |-> <<>>]

\* The keyword arguments of the calls.
StoryArgs ==
    {StoryFields(n, a, t, is, notes) :
        n \in NameArgs, a \in AgeArgs, t \in ThemeArgs,
        is \in InterestsArgs, notes \in NotesArgs}

RequestInit ==
    /\ q_raw \in StoryArgs
    /\ q_pc = "received"
    /\ q_req = NoStory
    /\ q_error = NoError

\* from models.story_request import StoryRequest; StoryRequest(**q_raw):
\* the call gives an instance or raises; the exception of the import is
\* the outcome as long as the module does not load.
RequestConstruct ==
    /\ q_pc = "received"
    /\ LET r == StoryRequest(q_raw) IN
       IF r.ok
       THEN /\ q_req' = r.value
            /\ q_pc' = "constructed"
            /\ UNCHANGED q_error
       ELSE /\ q_error' = r
            /\ q_pc' = "failed"
            /\ UNCHANGED q_req
    /\ UNCHANGED q_raw
    /\ UNCHANGED request_frame

RequestNext == RequestConstruct

(***************************************************************************)
(* The story coordinator: controllers/story_controller.py, the endpoint    *)
(* generate_story under validate_request, over services/openai_service.py  *)
(* and models/story_request.py.  The endpoint exists once its module is    *)
(* imported (app.py line 22); the run of the model is that import, made    *)
(* for a request that is to be posted.  The import raises                  *)
(* (import_story_controller), so no router is built, generate_story and    *)
(* validate_request never run, and nothing of the body is read.            *)
(***************************************************************************)
\* The bodies of the requests that wait for the endpoint.
StoryBodies == StoryArgs \cup SampleStories

StoryInit ==
    /\ s_raw \in StoryBodies
    /\ s_pc = "pending"
    /\ s_result = NoResult

\* from .controllers.story_controller import router: the import raises and
\* the request is left with that exception; no check and no call is made.
StoryLoad ==
    /\ s_pc = "pending"
    /\ ~import_story_controller.ok
    /\ s_result' = ImportFailure(import_story_controller)
    /\ s_pc' = "done"
    /\ UNCHANGED s_raw
    /\ UNCHANGED story_frame

StoryNext == StoryLoad

(***************************************************************************)
(* An IllustrationRequest under construction:                              *)
(* models/illustration_request.py, the constructor with its three          *)
(* validators.                                                             *)
(***************************************************************************)
P_tags == <<"<", "b", ">", "c", "a", "t", "<", "/", "b", ">">>
P_padded == <<" ", " ", "t", "o", "o", " ", "s", "h", "o", "r", "t", " ", " ", " ">>
IN_cartoon_spaced == <<" ", "c", "a", "r", "t", "o", "o", "n">>
IN_Digital_Art == <<"D", "i", "g", "i", "t", "a", "l", " ", "A", "r", "t">>

\* A prompt of the greatest length allowed, an apostrophe first.
FullPrompt == [i \in 1..MAX_PROMPT_LENGTH |-> IF i = 1 THEN "'" ELSE "x"]
\* A prompt one character over the limit.
LongPrompt == [i \in 1..(MAX_PROMPT_LENGTH + 1) |-> "x"]

PromptArgs == {P_dragon, P_quote, P_short, P_padded, P_markup, P_tags, FullPrompt,
               LongPrompt, <<>>}
StyleArgs ==
    Range(SUPPORTED_STYLES)
    \cup {StrUpper(SUPPORTED_STYLES[i]) : i \in DOMAIN SUPPORTED_STYLES}
    \cup {IN_Watercolor, IN_childrens, IN_Digital_Art, IN_oil, IN_cartoon_spaced, <<>>}
SizeDims ==
    {MIN_IMAGE_DIMENSION - DimMargin, MIN_IMAGE_DIMENSION, MIN_IMAGE_DIMENSION + 4,
     2 * MIN_IMAGE_DIMENSION, 2 * MIN_IMAGE_DIMENSION + 8, MAX_IMAGE_DIMENSION,
     MAX_IMAGE_DIMENSION + DimMargin}
SizeArgs == {<<w, h>> : w \in SizeDims, h \in SizeDims}

\* The arguments submitted: every prompt and every style with the default
\* size, every size with a prompt and a style that pass.
PictureArgs ==
    {Fields(p, st, DEFAULT_SIZE) : p \in PromptArgs, st \in StyleArgs}
    \cup {Fields(p, st, sz) : p \in {P_dragon, P_padded}, st \in {IN_Watercolor, IN_oil},
                               sz \in SizeArgs}

PictureInit ==
    /\ d_raw \in PictureArgs
    /\ d_pc = "received"
    /\ d_req = NoRequest
    /\ d_error = NoError

\* IllustrationRequest(**d_raw) returned an instance
PictureConstructed ==
    /\ d_pc = "received"
    /\ IllustrationRequest(d_raw).ok
    /\ d_req' = IllustrationRequest(d_raw).value
    /\ d_pc' = "constructed"
    /\ UNCHANGED <<d_raw, d_error>>
    /\ UNCHANGED picture_frame

\* IllustrationRequest(**d_raw) raised
PictureRejected ==
    /\ d_pc = "received"
    /\ ~IllustrationRequest(d_raw).ok
    /\ d_error' = IllustrationRequest(d_raw)
    /\ d_pc' = "failed"
    /\ UNCHANGED <<d_raw, d_req>>
    /\ UNCHANGED picture_frame

PictureNext == PictureConstructed \/ PictureRejected

(***************************************************************************)
(* The generation time of a successful call against the threshold: the     *)
(* comparison of StoryController.format_response                           *)
(* (controllers/story_controller.py, "within_sla") and the one of the      *)
(* endpoint generate_illustration                                          *)
(* (controllers/illustration_controller.py), each applied as written to a  *)
(* generation time.                                                        *)
(***************************************************************************)
\* PERFORMANCE_THRESHOLD of controllers/illustration_controller.py, in
\* tenths of a second
PERFORMANCE_THRESHOLD == 450
\* The 30 seconds of format_response's "within_sla", in tenths of a second
STORY_SLA == 300

\* "within_sla": story_content["metadata"]["generation_time"] < 30
StoryWithinSla(generation_time) == generation_time < STORY_SLA

\* if generation_time > PERFORMANCE_THRESHOLD: logger.warning(...)
IllusThresholdExceeded(generation_time) == generation_time > PERFORMANCE_THRESHOLD

\* The generation times measured: from SlaMargin below the threshold of a
\* story to SlaMargin above the one of an illustration.
ElapsedTimes == (STORY_SLA - SlaMargin)..(PERFORMANCE_THRESHOLD + SlaMargin)

SlaInit ==
    /\ m_kind \in {"story", "illustration"}
    /\ m_elapsed \in ElapsedTimes
    /\ m_pc = "returned"
    /\ m_breach = FALSE

\* format_response: the call is within the SLA or it is not
SlaStoryFormat ==
    /\ m_pc = "returned"
    /\ m_kind = "story"
    /\ m_breach' = ~StoryWithinSla(m_elapsed)
    /\ m_pc' = "measured"
    /\ UNCHANGED <<m_kind, m_elapsed>>
    /\ UNCHANGED sla_frame

\* generate_illustration of the controller: the warning of the threshold is
\* logged or it is not
SlaIllusCheck ==
    /\ m_pc = "returned"
    /\ m_kind = "illustration"
    /\ m_breach' = IllusThresholdExceeded(m_elapsed)
    /\ m_pc' = "measured"
    /\ UNCHANGED <<m_kind, m_elapsed>>
    /\ UNCHANGED sla_frame

SlaNext == SlaStoryFormat \/ SlaIllusCheck

(***************************************************************************)
(* models/story_request.py: the body of StoryRequest.to_dict applied as    *)
(* written to the attributes it reads, and the call of StoryRequest on    *)
(* the dictionary it returns.                                              *)
(***************************************************************************)
\* The attributes to_dict is applied to, each within the documented
\* ranges: every age of the range, with notes None, empty and non-empty.
ValidRequests ==
    {StoryFields(n, a, t, is, notes) :
        n \in {N_Mia, N_Max, N_J, N_Fearne}, a \in MIN_AGE..MAX_AGE,
        t \in {THEME_Adventure, THEME_Ocean},
        is \in {<<I_space>>, <<I_space, I_art>>},
        notes \in {NoNotes, <<>>, NOTE_science}}

\* StoryRequest.to_dict: `if self.additional_notes:` leaves the key out for
\* None and for the empty string.
to_dict(r) ==
    IF r.additional_notes \in {NoNotes, <<>>}
    THEN [character_name |-> r.character_name, age |-> r.age, theme |-> r.theme,
          interests |-> r.interests]
    ELSE [character_name |-> r.character_name, age |-> r.age, theme |-> r.theme,
          interests |-> r.interests, additional_notes |-> r.additional_notes]

\* The arguments StoryRequest(**d) binds: additional_notes has the default
\* None.
FromDict(d) ==
    [character_name   |-> d.character_name,
     age              |-> d.age,
     theme            |-> d.theme,
     interests        |-> d.interests,
     additional_notes |-> IF "additional_notes" \in DOMAIN d
                          THEN d.additional_notes ELSE NoNotes]

DictInit ==
    /\ e_req \in ValidRequests
    /\ e_dict = NoDict
    /\ e_again = NoStory
    /\ e_error = NoError
    /\ e_pc = "given"

\* d = to_dict(self)
DictExport ==
    /\ e_pc = "given"
    /\ e_dict' = to_dict(e_req)
    /\ e_pc' = "exported"
    /\ UNCHANGED <<e_req, e_again, e_error>>
    /\ UNCHANGED dict_frame

\* StoryRequest(**d): the request constructed, or what the call raised
DictRebuild ==
    /\ e_pc = "exported"
    /\ LET r == StoryRequest(FromDict(e_dict)) IN
       IF r.ok THEN /\ e_again' = r.value /\ e_pc' = "rebuilt" /\ UNCHANGED e_error
       ELSE /\ e_error' = r /\ e_pc' = "failed" /\ UNCHANGED e_again
    /\ UNCHANGED <<e_req, e_dict>>
    /\ UNCHANGED dict_frame

DictNext == DictExport \/ DictRebuild

(***************************************************************************)
(* models/story_request.py: the last statement of validate_interests,      *)
(* self.interests = list(dict.fromkeys(self.interests)), applied as        *)
(* written to lists of 1 to MaxGiven entries.                              *)
(***************************************************************************)
InterestEntries == {I_space, I_art, I_a}

InterestLists == UNION {[1..k -> InterestEntries] : k \in 1..MaxGiven}

InterestsInit ==
    /\ n_given \in InterestLists
    /\ n_validated = <<>>
    /\ n_pc = "given"

InterestsDedupe ==
    /\ n_pc = "given"
    /\ n_validated' = Dedupe(n_given)
    /\ n_pc' = "deduplicated"
    /\ UNCHANGED n_given
    /\ UNCHANGED interests_frame

InterestsNext == InterestsDedupe

(***************************************************************************)
(* services/openai_service.py: OpenAIService.validate_response, the only   *)
(* way from an answer of the provider to the content generate_story        *)
(* returns, applied as written to the contents the provider can answer     *)
(* with.                                                                   *)
(***************************************************************************)
\* if len(content.split()) < 100
MIN_STORY_WORDS == 100
\* unsafe_words of validate_response
unsafe_words == <<W_death, W_violence, W_scary, W_blood, W_weapon>>

ValueError(msg) == [ok |-> FALSE, error |-> "ValueError", message |-> msg]

\* A mutant of validate_response: the unsafe words are looked for in the
\* content as it came, not in content.lower().
validate_response_as_cased(content) ==
    IF content = <<>>
    THEN ValueError("Invalid response structure from OpenAI API")
    ELSE LET c == Strip(content) IN
         IF Len(Split(c)) < MIN_STORY_WORDS
         THEN ValueError("Generated content too short")
         ELSE IF \E i \in DOMAIN unsafe_words : Contains(c, unsafe_words[i])
         THEN ValueError("Generated content contains unsafe elements")
         ELSE Ok(c)

\* OpenAIService.validate_response on response.choices[0].message.content
validate_response(content) ==
    IF content = <<>>
    THEN ValueError("Invalid response structure from OpenAI API")
    ELSE LET c == Strip(content) IN
         IF Len(Split(c)) < MIN_STORY_WORDS
         THEN ValueError("Generated content too short")
         ELSE IF \E i \in DOMAIN unsafe_words : Contains(StrLower(c), unsafe_words[i])
         THEN ValueError("Generated content contains unsafe elements")
         ELSE Ok(c)

\* A text of n words, each the word sun, one space between.
Tale(n) ==
    [i \in 1..(n * (Len(W_sun) + 1) - 1) |->
        IF i % (Len(W_sun) + 1) = 0 THEN " " ELSE W_sun[i % (Len(W_sun) + 1)]]

\* What a content begins with and what follows its words of sun: nothing,
\* whitespace, one more harmless word, or an unsafe word in lower case, in
\* upper case, capitalized or inside a longer word.
AnswerHeads == {<<>>, <<" ", "\n">>}
AnswerTails ==
    {<<>>, <<"\t", " ">>, <<" ">> \o W_sun,
     <<" ">> \o Capitalize(W_death) \o <<"l", "y">>}
    \cup {<<" ">> \o unsafe_words[i] : i \in DOMAIN unsafe_words}
    \cup {<<"\n">> \o StrUpper(unsafe_words[i]) : i \in DOMAIN unsafe_words}
    \cup {<<" ">> \o Capitalize(unsafe_words[i]) : i \in DOMAIN unsafe_words}

\* The contents the provider answers with: no content, and stories of
\* about MIN_STORY_WORDS words.
ProviderAnswers ==
    {<<>>}
    \cup {h \o Tale(n) \o t :
             h \in AnswerHeads,
             n \in (MIN_STORY_WORDS - WordMargin)..(MIN_STORY_WORDS + WordMargin),
             t \in AnswerTails}

ResponseInit ==
    /\ a_content \in ProviderAnswers
    /\ a_result = NoError
    /\ a_pc = "answered"

\* story_content = self.validate_response(response): the content is
\* returned in the dictionary of generate_story, or the ValueError leaves
\* the call.
ResponseValidate ==
    /\ a_pc = "answered"
    /\ a_result' = validate_response(a_content)
    /\ a_pc' = IF validate_response(a_content).ok THEN "returned" ELSE "raised"
    /\ UNCHANGED a_content
    /\ UNCHANGED response_frame

ResponseNext == ResponseValidate

(***************************************************************************)
(* The retry policies of the three loops around an upstream call: the      *)
(* retry decorator of utils/error_handler.py with its default arguments,   *)
(* the loop of StableDiffusionService.generate_illustration, and tenacity's *)
(* @retry above OpenAIService.generate_story, whose client is built with   *)
(* timeout=TIMEOUT_SECONDS.  A run is one call whose attempts fail with a  *)
(* fault the loop retries, or return, each after a duration that is an     *)
(* input.                                                                  *)
(***************************************************************************)
\* MAX_RETRIES of services/openai_service.py: stop_after_attempt(MAX_RETRIES)
OPENAI_MAX_RETRIES == 3
\* wait_exponential(multiplier=1, min=4, max=10), in tenths of a second
TENACITY_MULTIPLIER == 10
TENACITY_MIN == 40
TENACITY_MAX == 100
\* TIMEOUT_SECONDS of services/openai_service.py, in tenths of a second
TIMEOUT_SECONDS == 250

Max(a, b) == IF a >= b THEN a ELSE b
Min(a, b) == IF a <= b THEN a ELSE b

\* tenacity.wait_exponential.__call__ after failed attempt number n (from 1):
\* max(max(0, min), min(multiplier * 2 ** (n - 1), max))
tenacity_wait(n) ==
    Max(Max(0, TENACITY_MIN), Min(TENACITY_MULTIPLIER * Pow2(n - 1), TENACITY_MAX))

Loops == {"decorator", "illustration", "story"}

\* The attempts each loop makes at most.
LoopAttempts(loop) ==
    CASE loop = "decorator"    -> MAX_RETRIES
      [] loop = "illustration" -> SD_MAX_RETRIES
      [] loop = "story"        -> OPENAI_MAX_RETRIES

\* The wait of each loop after failed attempt i (from 0): time.sleep(delay *
\* (2 ** attempt)), asyncio.sleep(RETRY_DELAY * (2 ** attempt)), and the
\* wait of tenacity, which numbers the attempts from 1.
LoopWait(loop, i) ==
    CASE loop = "decorator"    -> wait_time(RETRY_DELAY, i)
      [] loop = "illustration" -> wait_time(SD_RETRY_DELAY, i)
      [] loop = "story"        -> tenacity_wait(i + 1)

\* Whether the loop sleeps after the last attempt it makes has failed.
SleepsAfterLast(loop) == loop = "decorator"

\* How long an attempt lasts: a quick call, a slow one, and one that lasts
\* until the timeout of the story client.
AttemptDurations == {QuickCall, SlowCall, TIMEOUT_SECONDS}

PolicyInit ==
    /\ p_loop \in Loops
    /\ p_attempt = 0
    /\ p_waits = <<>>
    /\ p_elapsed = 0
    /\ p_pc = "calling"

\* The attempt returns after d: the call is over.
PolicyReturn(d) ==
    /\ p_pc = "calling"
    /\ p_elapsed' = p_elapsed + d
    /\ p_pc' = "returned"
    /\ UNCHANGED <<p_loop, p_attempt, p_waits>>
    /\ UNCHANGED policy_frame

\* The attempt fails after d.  The loop of the illustration service tests
\* `if attempt == MAX_RETRIES - 1: raise` before its sleep and tenacity stops
\* after the last attempt; the retry decorator has no such test and sleeps
\* after every failed attempt.
PolicyFail(d) ==
    /\ p_pc = "calling"
    /\ p_elapsed' = p_elapsed + d
    /\ p_pc' = IF SleepsAfterLast(p_loop) \/ p_attempt < LoopAttempts(p_loop) - 1
               THEN "waiting" ELSE "failed"
    /\ UNCHANGED <<p_loop, p_attempt, p_waits>>
    /\ UNCHANGED policy_frame

\* The wait, and then the next attempt, or the end of the loop when the
\* attempt that failed was the last.
PolicyWait ==
    /\ p_pc = "waiting"
    /\ p_waits' = Append(p_waits, LoopWait(p_loop, p_attempt))
    /\ p_elapsed' = p_elapsed + LoopWait(p_loop, p_attempt)
    /\ IF p_attempt < LoopAttempts(p_loop) - 1
       THEN /\ p_attempt' = p_attempt + 1 /\ p_pc' = "calling"
       ELSE /\ p_pc' = "failed" /\ UNCHANGED p_attempt
    /\ UNCHANGED p_loop
    /\ UNCHANGED policy_frame

PolicyNext ==
    \/ \E d \in AttemptDurations : PolicyReturn(d)
    \/ \E d \in AttemptDurations : PolicyFail(d)
    \/ PolicyWait

(***************************************************************************)
(* utils/validators.py: validate_image_dimensions, next to the size        *)
(* validator of IllustrationRequest.                                       *)
(***************************************************************************)
\* STABLE_DIFFUSION_CONFIG['base_resolution'] of config.py
base_resolution == <<512, 512>>
\* max_dimension = 2048  # Maximum supported dimension
max_dimension == 2048

\* utils.validators.validate_image_dimensions (the argument is a 2-tuple)
utils_validate_image_dimensions(dimensions) ==
    LET width == dimensions[1]
        height == dimensions[2]
        base_width == base_resolution[1]
        base_height == base_resolution[2]
    IN  IF width % base_width # 0 \/ height % base_height # 0
        THEN Err("Dimensions must be multiples of base resolution", "base_width,base_height")
        ELSE IF width > max_dimension \/ height > max_dimension
        THEN Err("Dimensions exceed maximum supported size", "max_dimension")
        ELSE Ok(dimensions)

\* Widths and heights: negative, zero, below, at and above the limits of
\* either validator, multiples of the base resolution and others.
DimValues == {0 - 512, 0, 8, 256, 512, 768, 1024, 1536, max_dimension, max_dimension + 512}

DimsInit ==
    /\ z_dims \in DimValues \X DimValues
    /\ z_pc = "given"
    /\ z_util = NoError
    /\ z_request = NoError

\* Both validators are called with the pair.
DimsCheck ==
    /\ z_pc = "given"
    /\ z_util' = utils_validate_image_dimensions(z_dims)
    /\ z_request' = validate_size(z_dims)
    /\ z_pc' = "checked"
    /\ UNCHANGED z_dims
    /\ UNCHANGED dims_frame

DimsNext == DimsCheck

(***************************************************************************)
(* Specifications.  Each one runs one part of the service; the variables   *)
(* of the other parts stay as they start.                                  *)
(***************************************************************************)
RetryIdle ==
    /\ max_attempts = 0 /\ delay = 0 /\ attempt = 0 /\ last_exception = None
    /\ history = <<>> /\ sleeps = <<>> /\ outcome = NoOutcome /\ pc = "idle"

IllusIdle ==
    /\ i_raw = <<>> /\ i_req = <<>> /\ i_pc = <<>> /\ i_attempt = <<>>
    /\ i_calls = <<>> /\ i_sleeps = <<>> /\ i_last_error = <<>> /\ i_result = <<>>
    /\ i_request_id = <<>> /\ i_uuids = 0 /\ thread = 0

StoryIdle == s_raw = NoStory /\ s_pc = "idle" /\ s_result = NoResult

ClassIdle == c_log = <<>>

SafetyIdle ==
    /\ v_parts = [prefix |-> <<>>, core |-> <<>>, suffix |-> <<>>]
    /\ v_text = <<>> /\ v_pc = "idle"
    /\ v_safety = NoValidation /\ v_result = NoValidation

RequestIdle ==
    /\ q_raw = NoStory /\ q_pc = "idle" /\ q_req = NoStory /\ q_error = NoError

PictureIdle ==
    /\ d_raw = Fields(<<>>, <<>>, <<0, 0>>) /\ d_pc = "idle" /\ d_req = NoRequest
    /\ d_error = NoError

SlaIdle ==
    /\ m_kind = "none" /\ m_elapsed = 0 /\ m_pc = "idle" /\ m_breach = FALSE

DictIdle ==
    /\ e_req = NoStory /\ e_dict = NoDict /\ e_again = NoStory /\ e_error = NoError
    /\ e_pc = "idle"

InterestsIdle == n_given = <<>> /\ n_validated = <<>> /\ n_pc = "idle"

ResponseIdle == a_content = <<>> /\ a_result = NoError /\ a_pc = "idle"

PolicyIdle ==
    /\ p_loop = "none" /\ p_attempt = 0 /\ p_waits = <<>> /\ p_elapsed = 0
    /\ p_pc = "idle"

DimsIdle ==
    /\ z_dims = <<0, 0>> /\ z_pc = "idle" /\ z_util = NoError /\ z_request = NoError

InitRetry ==
    /\ RetryInit
    /\ IllusIdle
    /\ StoryIdle
    /\ ClassIdle
    /\ SafetyIdle
    /\ RequestIdle
    /\ PictureIdle
    /\ SlaIdle
    /\ DictIdle
    /\ InterestsIdle
    /\ ResponseIdle
    /\ PolicyIdle
    /\ DimsIdle
SpecRetry == InitRetry /\ [][RetryNext]_vars

InitIllus ==
    /\ IllusInit
    /\ RetryIdle
    /\ StoryIdle
    /\ ClassIdle
    /\ SafetyIdle
    /\ RequestIdle
    /\ PictureIdle
    /\ SlaIdle
    /\ DictIdle
    /\ InterestsIdle
    /\ ResponseIdle
    /\ PolicyIdle
    /\ DimsIdle
SpecIllus == InitIllus /\ [][IllusNext]_vars

\* The event loop runs a task that is ready, a call of the provider returns
\* or raises, and a sleep ends: a step that can be taken is taken.
SpecIllusLive == InitIllus /\ [][IllusNext]_vars /\ WF_vars(IllusNext)

InitStory ==
    /\ StoryInit
    /\ RetryIdle
    /\ IllusIdle
    /\ ClassIdle
    /\ SafetyIdle
    /\ RequestIdle
    /\ PictureIdle
    /\ SlaIdle
    /\ DictIdle
    /\ InterestsIdle
    /\ ResponseIdle
    /\ PolicyIdle
    /\ DimsIdle
SpecStory == InitStory /\ [][StoryNext]_vars

InitClass ==
    /\ ClassInit
    /\ RetryIdle
    /\ IllusIdle
    /\ StoryIdle
    /\ SafetyIdle
    /\ RequestIdle
    /\ PictureIdle
    /\ SlaIdle
    /\ DictIdle
    /\ InterestsIdle
    /\ ResponseIdle
    /\ PolicyIdle
    /\ DimsIdle
SpecClass == InitClass /\ [][ClassNext]_vars

InitSafety ==
    /\ SafetyInit
    /\ RetryIdle
    /\ IllusIdle
    /\ StoryIdle
    /\ ClassIdle
    /\ RequestIdle
    /\ PictureIdle
    /\ SlaIdle
    /\ DictIdle
    /\ InterestsIdle
    /\ ResponseIdle
    /\ PolicyIdle
    /\ DimsIdle
SpecSafety == InitSafety /\ [][SafetyNext]_vars

InitRequest ==
    /\ RequestInit
    /\ RetryIdle
    /\ IllusIdle
    /\ StoryIdle
    /\ ClassIdle
    /\ SafetyIdle
    /\ PictureIdle
    /\ SlaIdle
    /\ DictIdle
    /\ InterestsIdle
    /\ ResponseIdle
    /\ PolicyIdle
    /\ DimsIdle
SpecRequest == InitRequest /\ [][RequestNext]_vars

InitPicture ==
    /\ PictureInit
    /\ RetryIdle
    /\ IllusIdle
    /\ StoryIdle
    /\ ClassIdle
    /\ SafetyIdle
    /\ RequestIdle
    /\ SlaIdle
    /\ DictIdle
    /\ InterestsIdle
    /\ ResponseIdle
    /\ PolicyIdle
    /\ DimsIdle
SpecPicture == InitPicture /\ [][PictureNext]_vars

InitSla ==
    /\ SlaInit
    /\ RetryIdle
    /\ IllusIdle
    /\ StoryIdle
    /\ ClassIdle
    /\ SafetyIdle
    /\ RequestIdle
    /\ PictureIdle
    /\ DictIdle
    /\ InterestsIdle
    /\ ResponseIdle
    /\ PolicyIdle
    /\ DimsIdle
SpecSla == InitSla /\ [][SlaNext]_vars

InitDict ==
    /\ DictInit
    /\ RetryIdle
    /\ IllusIdle
    /\ StoryIdle
    /\ ClassIdle
    /\ SafetyIdle
    /\ RequestIdle
    /\ PictureIdle
    /\ SlaIdle
    /\ InterestsIdle
    /\ ResponseIdle
    /\ PolicyIdle
    /\ DimsIdle
SpecDict == InitDict /\ [][DictNext]_vars

InitInterests ==
    /\ InterestsInit
    /\ RetryIdle
    /\ IllusIdle
    /\ StoryIdle
    /\ ClassIdle
    /\ SafetyIdle
    /\ RequestIdle
    /\ PictureIdle
    /\ SlaIdle
    /\ DictIdle
    /\ ResponseIdle
    /\ PolicyIdle
    /\ DimsIdle
SpecInterests == InitInterests /\ [][InterestsNext]_vars

InitResponse ==
    /\ ResponseInit
    /\ RetryIdle
    /\ IllusIdle
    /\ StoryIdle
    /\ ClassIdle
    /\ SafetyIdle
    /\ RequestIdle
    /\ PictureIdle
    /\ SlaIdle
    /\ DictIdle
    /\ InterestsIdle
    /\ PolicyIdle
    /\ DimsIdle
SpecResponse == InitResponse /\ [][ResponseNext]_vars

InitPolicy ==
    /\ PolicyInit
    /\ RetryIdle
    /\ IllusIdle
    /\ StoryIdle
    /\ ClassIdle
    /\ SafetyIdle
    /\ RequestIdle
    /\ PictureIdle
    /\ SlaIdle
    /\ DictIdle
    /\ InterestsIdle
    /\ ResponseIdle
    /\ DimsIdle
SpecPolicy == InitPolicy /\ [][PolicyNext]_vars

InitDims ==
    /\ DimsInit
    /\ RetryIdle
    /\ IllusIdle
    /\ StoryIdle
    /\ ClassIdle
    /\ SafetyIdle
    /\ RequestIdle
    /\ PictureIdle
    /\ SlaIdle
    /\ DictIdle
    /\ InterestsIdle
    /\ ResponseIdle
    /\ PolicyIdle
SpecDims == InitDims /\ [][DimsNext]_vars

(***************************************************************************)
(* The error table of the specification (section 4.4), by fault category.  *)
(***************************************************************************)
FaultCategory(e) ==
    CASE e \in {"openai.error.RateLimitError", "stability.RateLimitError"}
             -> "rate_limit"
      [] e \in {"openai.error.InvalidRequestError", "stability.InvalidRequestError"}
             -> "invalid_request"
      [] e \in {"openai.error.APIError", "openai.error.ServiceUnavailableError",
                "openai.error.APIConnectionError", "stability.ServerError"}
             -> "transient"
      [] e \in {"openai.error.Timeout", "asyncio.TimeoutError"}
             -> "deadline"
      [] e = "openai.error.ContentFilterError"
             -> "content_filter"
      [] e = "stability.ResourceExhaustedError"
             -> "resource_exhausted"
      [] OTHER -> "unrecognized"

TableRetryable(category) ==
    category \in {"rate_limit", "transient", "deadline", "resource_exhausted"}

TableStatus(category) ==
    CASE category = "rate_limit"         -> 429
      [] category = "invalid_request"    -> 400
      [] category = "transient"          -> 500
      [] category = "deadline"           -> 504
      [] category = "content_filter"     -> 422
      [] category = "resource_exhausted" -> 429
      [] OTHER                           -> 500

TableMessage(category) ==
    CASE category = "rate_limit"         -> ERROR_MESSAGES.RATE_LIMIT
      [] category = "invalid_request"    -> ERROR_MESSAGES.INVALID_REQUEST
      [] category = "transient"          -> ERROR_MESSAGES.API_ERROR
      [] category = "deadline"           -> ERROR_MESSAGES.TIMEOUT
      [] category = "content_filter"     -> ERROR_MESSAGES.CONTENT_FILTER
      [] category = "resource_exhausted" -> ERROR_MESSAGES.RESOURCE_EXHAUSTED
      [] OTHER                           -> ERROR_MESSAGES.API_ERROR

\* Faults the table and every reading of it take as not retryable.
FatalFaults == {e \in Faults : ~TableRetryable(FaultCategory(e))}

\* Rate-limit and server/connection faults.
TransientFaults ==
    {"openai.error.RateLimitError", "openai.error.ServiceUnavailableError",
     "openai.error.APIConnectionError", "stability.RateLimitError",
     "stability.ServerError"}

IsRaise(o) == o.kind = "raise"
AllRaised(S) == \A i \in 1..Len(history) : IsRaise(history[i]) /\ history[i].error \in S

(***************************************************************************)
(* C1. Retry decorator: an attempt that fails with a non-retryable fault   *)
(* is the last one: the wrapper has left at once, raising that very fault, *)
(* and slept only after the earlier attempts; when the first attempt fails *)
(* so, exactly one attempt was made and there was no sleep.                *)
(***************************************************************************)
C1_NonRetryableSingleAttempt ==
    \A i \in 1..Len(history) :
        (IsRaise(history[i]) /\ history[i].error \in FatalFaults)
        => /\ i = Len(history)
           /\ pc = "done"
           /\ outcome = WrapperReraise(history[i].error)
           /\ Len(sleeps) = i - 1

C1_Witness ==
    /\ pc = "done"
    /\ max_attempts = MAX_RETRIES
    /\ history = <<Raised("openai.error.InvalidRequestError")>>
    /\ sleeps = <<>>

(***************************************************************************)
(* C2. Retry decorator: when every attempt failed with a retryable fault,  *)
(* the wrapped operation was invoked exactly max_attempts times (3 with    *)
(* the default) and the wrapper raised RETRY_FAILED, its details holding   *)
(* the fault of the last attempt.                                          *)
(***************************************************************************)
C2_AllRetryableGivesRetryFailed ==
    (pc = "done" /\ max_attempts >= 1 /\ AllRaised(TransientFaults))
    => /\ Len(history) = max_attempts
       /\ outcome.kind = "raise"
       /\ outcome.type = "AIServiceError"
       /\ outcome.message = ERROR_MESSAGES.RETRY_FAILED
       /\ outcome.original_error = history[Len(history)].error

C2_Witness ==
    /\ pc = "done"
    /\ max_attempts = MAX_RETRIES
    /\ history = <<Raised("openai.error.RateLimitError"),
                   Raised("stability.ServerError"),
                   Raised("stability.RateLimitError")>>
    /\ outcome.message = ERROR_MESSAGES.RETRY_FAILED

(***************************************************************************)
(* C3. Retry decorator: an attempt that succeeds is the last one; the      *)
(* wrapper has returned that attempt's result, after exactly k+1           *)
(* invocations when k retryable failures came first, with one sleep after  *)
(* each of the k failures and none after the success.                      *)
(***************************************************************************)
C3_SuccessReturnsAtOnce ==
    \A i \in 1..Len(history) :
        history[i].kind = "return"
        => /\ i = Len(history)
           /\ i <= max_attempts
           /\ pc = "done"
           /\ outcome = [kind |-> "return", value |-> history[i].value]
           /\ Len(sleeps) = i - 1
           /\ \A j \in 1..(i - 1) :
                 IsRaise(history[j]) /\ history[j].error \in TransientFaults

C3_Witness ==
    /\ pc = "done"
    /\ max_attempts = MAX_RETRIES
    /\ Len(history) = MAX_RETRIES
    /\ IsRaise(history[1]) /\ IsRaise(history[2])
    /\ history[3] = Returned("r2")
    /\ outcome = [kind |-> "return", value |-> "r2"]

(***************************************************************************)
(* C6. Retry decorator: when the final allowed attempt has failed, the     *)
(* failure is produced immediately: no sleep follows the last attempt, so  *)
(* a run of n attempts holds at most n - 1 sleeps.                         *)
(***************************************************************************)
C6_NoSleepAfterFinalAttempt ==
    (pc = "done" /\ history # <<>>) => Len(sleeps) <= Len(history) - 1

\* The state the claim is about: the wrapper gave up after max_attempts failures.
C6_Witness ==
    /\ pc = "done"
    /\ max_attempts = MAX_RETRIES
    /\ Len(history) = MAX_RETRIES
    /\ outcome.kind = "raise" /\ outcome.message = ERROR_MESSAGES.RETRY_FAILED

(***************************************************************************)
(* C10. The retryable flag agrees with the table for every enumerated      *)
(* fault category: the wrapper takes a caught fault as retryable exactly   *)
(* when its category is rate limit, transient server/connection, deadline  *)
(* exceeded or resource exhaustion.                                        *)
(***************************************************************************)
C10_RetryableAgreesWithTable ==
    (last_exception # None /\ FaultCategory(last_exception) # "unrecognized")
    => (is_retryable_error(last_exception)
            <=> TableRetryable(FaultCategory(last_exception)))

(***************************************************************************)
(* Bodies of story requests the statements below name: one that meets      *)
(* every constraint and holds no unsafe word, one whose age is below the   *)
(* range, and one with an unsafe interest.                                 *)
(***************************************************************************)
PassingBody == StoryFields(N_Mia, 8, THEME_Adventure, <<I_space, I_dinosaurs>>, NoNotes)
InvalidBody == StoryFields(N_Mia, 2, THEME_Adventure, <<I_space>>, NoNotes)
UnsafeBody == StoryFields(N_Max, 7, THEME_Science, <<I_drugs>>, NOTE_science)

(***************************************************************************)
(* C5.  Illustration coordinator: the provider is called only for a        *)
(* request whose prompt text passes the content-safety check (no unsafe    *)
(* and no age-inappropriate pattern matches it).                           *)
(***************************************************************************)
C5_PromptSafetyCheckedBeforeProvider ==
    \A t \in Tasks :
        i_calls[t] > 0 => _check_content_safety(i_req[t].prompt).is_valid

(***************************************************************************)
(* C7.  While one request is suspended, in its provider call or in its     *)
(* backoff sleep, another request that has a step left to take can take    *)
(* it.                                                                     *)
(***************************************************************************)
Suspended(t) == i_pc[t] \in {"in_provider", "backoff"}

\* The steps request u takes on the event loop by itself, the provider's
\* answer apart.
Advance(u) == IllusConstruct(u) \/ IllusDispatch(u) \/ IllusResume(u)

C7_SuspendedCallBlocksNoOther ==
    \A t \in Tasks, u \in Tasks :
        (t # u /\ Suspended(t) /\ i_pc[u] \in {"received", "constructed", "backoff"})
            => ENABLED Advance(u)

(***************************************************************************)
(* C8.  The failure the caller of a coordinator receives for a request     *)
(* that passed the checks is the classified error of the terminal upstream *)
(* fault: an HTTPException with the status and the message the error       *)
(* handler gives to a fault.                                               *)
(***************************************************************************)
Classifications ==
    {<<handle_openai_error(f).status, handle_openai_error(f).message>> :
        f \in OpenAIFaults \cup OtherFaults}

C8_FailureCarriesClassification ==
    (s_pc = "done" /\ s_raw = PassingBody /\ s_result.kind # "response")
    => /\ s_result.kind = "raise"
       /\ <<s_result.status, s_result.message>> \in Classifications

(***************************************************************************)
(* C9.  A request whose terminal upstream fault is the deadline-exceeded   *)
(* fault fails with status 504 and the TIMEOUT message.                    *)
(***************************************************************************)
C9_DeadlineSurfacedAs504 ==
    \A t \in Tasks :
        (/\ i_pc[t] = "done"
         /\ i_result[t].kind = "raise"
         /\ i_last_error[t] = "asyncio.TimeoutError")
            => /\ i_result[t].status = 504
               /\ i_result[t].message = ERROR_MESSAGES.TIMEOUT

(***************************************************************************)
(* C11.  A fault outside the enumerated categories, handed to either       *)
(* handler, is classified with status 500 and the API_ERROR message, and   *)
(* _is_retryable_error answers no for it.                                  *)
(***************************************************************************)
C11_UnrecognizedIsApiErrorNotRetryable ==
    \A i \in DOMAIN c_log :
        FaultCategory(c_log[i].error) = "unrecognized"
        => /\ c_log[i].raised.status = 500
           /\ c_log[i].raised.message = ERROR_MESSAGES.API_ERROR
           /\ ~c_log[i].retryable

\* Both handlers have met a fault outside the enumerated categories.
C11_Witness ==
    /\ Len(c_log) = 2
    /\ c_log[1].provider = "openai" /\ c_log[1].error = "ValueError"
    /\ c_log[2].provider = "stability" /\ c_log[2].error = "AIServiceError"
    /\ c_log[2].raised.status = 500

(***************************************************************************)
(* C12.  Retry decorator: the wrapper ends with RETRY_FAILED exactly when  *)
(* max_attempts attempts were made and each of them failed with a fault    *)
(* that _is_retryable_error accepts; a run whose last attempt failed with  *)
(* another fault ends with that fault itself.                              *)
(***************************************************************************)
IsRetryFailed(o) ==
    /\ o.kind = "raise"
    /\ o.type = "AIServiceError"
    /\ o.message = ERROR_MESSAGES.RETRY_FAILED

C12_RetryFailedIffExhausted ==
    pc = "done" =>
        /\ IsRetryFailed(outcome) <=>
              /\ Len(history) = max_attempts
              /\ \A i \in DOMAIN history :
                    IsRaise(history[i]) /\ is_retryable_error(history[i].error)
        /\ \A e \in Faults :
              (history # <<>> /\ history[Len(history)] = Raised(e) /\ ~is_retryable_error(e))
              => (outcome = WrapperReraise(e) /\ ~IsRetryFailed(outcome))

\* Two runs the caller tells apart: here the one that gave up after two tries.
C12_Witness ==
    /\ pc = "done"
    /\ max_attempts = 2
    /\ history = <<Raised("stability.ServerError"), Raised("openai.error.APIConnectionError")>>
    /\ IsRetryFailed(outcome)
    /\ outcome.original_error = "openai.error.APIConnectionError"

(***************************************************************************)
(* C13.  Story coordinator: the failure reported for a failed content-     *)
(* safety check has the kind of the content filter (status 422, the        *)
(* CONTENT_FILTER class), and differs in kind from the failure reported    *)
(* for a structural validation error (status 400, INVALID_REQUEST).        *)
(***************************************************************************)
C13_SafetyFailureIsContentFilter ==
    /\ (s_pc = "done" /\ s_raw = UnsafeBody)
       => (s_result.kind = "raise" /\ s_result.status = 422)
    /\ (s_pc = "done" /\ s_raw = InvalidBody)
       => (s_result.kind = "raise" /\ s_result.status = 400)

(***************************************************************************)
(* C14.  Content validator: a text that validate_story_prompt rejects      *)
(* matches an entry of one of the three pattern groups; a text free of all *)
(* of them is accepted.                                                    *)
(***************************************************************************)
\* A denylisted keyword or a pattern of either list occurs in the text,
\* in any letter case.
MatchesSomeGroup(text) ==
    \/ \E i \in DOMAIN NSFW_KEYWORDS : Contains(StrLower(text), NSFW_KEYWORDS[i])
    \/ \E i \in DOMAIN UNSAFE_PATTERNS : PatternSearch(UNSAFE_PATTERNS[i], text)
    \/ \E i \in DOMAIN AGE_INAPPROPRIATE_CONTENT :
           PatternSearch(AGE_INAPPROPRIATE_CONTENT[i], text)

C14_PatternFreeTextIsValid ==
    (v_pc = "checked" /\ ~MatchesSomeGroup(v_text)) => v_result.is_valid

(***************************************************************************)
(* C15.  Content validator: a text that holds a word of an unsafe or an    *)
(* age-inappropriate pattern is rejected by _check_content_safety and by   *)
(* validate_story_prompt, whatever text stands before or after the word    *)
(* and whatever letter case the word is written in.                        *)
(***************************************************************************)
C15_MatchAnywhereIsInvalid ==
    (v_pc = "checked" /\ v_parts.core \in UnsafeCores)
    => /\ ~v_safety.is_valid
       /\ ~v_result.is_valid

\* An upper-case word between other text has been checked and rejected.
C15_Witness ==
    /\ v_pc = "checked"
    /\ v_parts = [prefix |-> PRE_the_big, core |-> StrUpper(W_horror), suffix |-> SUF_town]
    /\ ~v_safety.is_valid
    /\ v_safety.message = "Content not suitable for target age group"

(***************************************************************************)
(* C16.  Story coordinator: the top-level message of every failure the     *)
(* caller gets is an entry of ERROR_MESSAGES, not the text of the          *)
(* exception that was raised.                                              *)
(***************************************************************************)
MessageTable == {ERROR_MESSAGES[k] : k \in DOMAIN ERROR_MESSAGES}

C16_MessageFromFixedTable ==
    (s_pc = "done" /\ s_result.kind # "response")
    => s_result.message \in MessageTable

(***************************************************************************)
(* C17.  Every StoryRequest that construction returned meets the five      *)
(* constraints at once: a name of 1 to 50 letters, spaces and hyphens, an  *)
(* age from 3 to 12, a supported theme, 1 to 5 pairwise distinct interests *)
(* of letters, spaces and hyphens, and notes absent or of at most 500      *)
(* characters; arguments that break a constraint make the construction     *)
(* raise and leave no instance.                                            *)
(***************************************************************************)
\* The letters of the model's alphabet.
Letters == Range(UpperCase) \cup Range(LowerCase) \cup {"é"}

LettersSpacesHyphens(w) ==
    \A i \in DOMAIN w : w[i] \in Letters \/ IsSpace(w[i]) \/ w[i] = "-"

WellFormed(r) ==
    /\ Len(r.character_name) \in 1..50 /\ LettersSpacesHyphens(r.character_name)
    /\ r.age \in 3..12
    /\ r.theme \in Range(SUPPORTED_THEMES)
    /\ Len(r.interests) \in 1..5
    /\ \A i \in DOMAIN r.interests, j \in DOMAIN r.interests :
           i # j => r.interests[i] # r.interests[j]
    /\ \A i \in DOMAIN r.interests :
           Len(r.interests[i]) \in 1..30 /\ LettersSpacesHyphens(r.interests[i])
    /\ r.additional_notes = NoNotes \/ Len(r.additional_notes) <= 500

\* Arguments that break a constraint whatever the sanitizing does to them.
BreaksConstraint(fields) ==
    \/ fields.character_name \in {<<>>, N_M1a}
    \/ fields.age \notin 3..12
    \/ fields.theme \in {<<>>, T_Pirates}
    \/ fields.interests = <<>> \/ Len(fields.interests) > 5
    \/ fields.additional_notes = LongNotes

FieldOrder == <<"character_name", "age", "theme", "interests", "additional_notes">>

\* Whether a field of the sanitized arguments breaks its constraint.
FieldInvalid(f, r) ==
    CASE f = "character_name"   -> ~(/\ Len(r.character_name) \in 1..50
                                     /\ LettersSpacesHyphens(r.character_name))
      [] f = "age"              -> ~validate_age(r).ok
      [] f = "theme"            -> ~validate_theme(r).ok
      [] f = "interests"        -> ~(/\ Len(r.interests) \in 1..5
                                     /\ \A i \in DOMAIN r.interests :
                                            /\ Len(r.interests[i]) \in 1..30
                                            /\ LettersSpacesHyphens(r.interests[i]))
      [] f = "additional_notes" -> ~validate_additional_notes(r).ok

InvalidFields(r) == {k \in DOMAIN FieldOrder : FieldInvalid(FieldOrder[k], r)}

ArgsValid(fields) == InvalidFields(Sanitized(fields)) = {}

OtherFieldsValid(fields) == ArgsValid([fields EXCEPT !.age = MIN_AGE])

C18_AgeOutsideRangeRejected ==
    (q_pc \notin {"idle", "received"} /\ OtherFieldsValid(q_raw))
    => IF q_raw.age \in 3..12
       THEN q_pc # "failed" /\ q_req.age = q_raw.age
       ELSE /\ q_pc = "failed"
            /\ q_error.error = "AIServiceError"
            /\ q_error.field = "age"
            /\ q_error.message = "Age must be between 3 and 12 years"

(***************************************************************************)
(* C19.  When several fields of a StoryRequest are invalid, the error      *)
(* raised is that of the first invalid field in the order character_name,  *)
(* age, theme, interests, additional_notes.                                *)
(***************************************************************************)
C19_FirstInvalidFieldReported ==
    q_pc = "failed" =>
        LET bad == InvalidFields(Sanitized(q_raw))
        IN  /\ bad # {}
            /\ q_error.error = "AIServiceError"
            /\ q_error.field = FieldOrder[CHOOSE k \in bad : \A m \in bad : k <= m]

(***************************************************************************)
(* C20.  For a request r with valid fields, notes absent, empty or         *)
(* present, to_dict loses no information: the dictionary hands the         *)
(* constructor the five fields of r, and the call of StoryRequest on    *)
(* r.to_dict() succeeds with a request equal to r in all five fields.      *)
(***************************************************************************)
C20_ToDictRoundTrips ==
    /\ e_pc # "given" => FromDict(e_dict) = e_req
    /\ e_pc \in {"rebuilt", "failed"} => (e_pc = "rebuilt" /\ e_again = e_req)

(***************************************************************************)
(* C21.  For every list of interests that reaches the end of               *)
(* validate_interests, the validated interests are the list given with     *)
(* every later duplicate removed: the same values, each once, in the order *)
(* of their first occurrences.                                             *)
(***************************************************************************)
FirstIndex(xs, x) == CHOOSE i \in DOMAIN xs : xs[i] = x /\ \A j \in 1..(i - 1) : xs[j] # x

FirstSeenOrder(xs, ys) ==
    /\ Range(ys) = Range(xs)
    /\ \A i \in DOMAIN ys, j \in DOMAIN ys :
           i < j => /\ ys[i] # ys[j]
                    /\ FirstIndex(xs, ys[i]) < FirstIndex(xs, ys[j])

C21_DuplicatesRemovedFirstSeenOrder ==
    n_pc = "deduplicated" => FirstSeenOrder(n_given, n_validated)

\* [space, space, art] has become [space, art].
C21_Witness ==
    /\ n_pc = "deduplicated"
    /\ n_given = <<I_space, I_space, I_art>>
    /\ n_validated = <<I_space, I_art>>

(***************************************************************************)
(* C22.  The bound of 1 to 5 interests is checked on the list as           *)
(* submitted: with the name, the age and the theme valid, a list of more   *)
(* than 5 entries is rejected with 'Maximum 5 interests allowed' however    *)
(* few distinct values it holds, a list of 1 to 5 entries with an entry    *)
(* that is not letters, spaces and hyphens is rejected with the pattern    *)
(* error, and a list is deduplicated only when it passed both checks.      *)
(***************************************************************************)
ReachesInterests(fields) ==
    \A k \in 1..3 : ~FieldInvalid(FieldOrder[k], Sanitized(fields))

SomeInterestIllFormed(fields) ==
    LET is == Sanitized(fields).interests
    IN  \E i \in DOMAIN is : ~(Len(is[i]) \in 1..30 /\ LettersSpacesHyphens(is[i]))

C22_CountCheckedBeforeDeduplication ==
    (q_pc \notin {"idle", "received"} /\ ReachesInterests(q_raw))
    => /\ Len(q_raw.interests) > 5
          => /\ q_pc = "failed"
             /\ q_error.error = "AIServiceError"
             /\ q_error.field = "interests"
             /\ q_error.message = "Maximum 5 interests allowed"
       /\ (Len(q_raw.interests) \in 1..5 /\ SomeInterestIllFormed(q_raw))
          => /\ q_pc = "failed"
             /\ q_error.message = "Interest must contain only letters, spaces, and hyphens"
       /\ q_pc # "failed"
          => /\ Len(q_raw.interests) \in 1..5
             /\ ~SomeInterestIllFormed(q_raw)
             /\ q_req.interests = Dedupe(Sanitized(q_raw).interests)

(***************************************************************************)
(* C23.  The prompt stored in every constructed IllustrationRequest, that  *)
(* is the prompt after sanitization, is between 10 and 1000 characters     *)
(* long.                                                                   *)
(***************************************************************************)
C23_StoredPromptLengthInRange ==
    d_pc = "constructed" => Len(d_req.prompt) \in 10..1000

(***************************************************************************)
(* C24.  With a prompt and a style that pass, the construction of an       *)
(* IllustrationRequest succeeds for a size (width, height) if and only if  *)
(* both dimensions are from 256 to 1024, width / height is from 0.5 to 2.0 *)
(* and both dimensions are multiples of 8; for every other size it fails   *)
(* with the validation error.                                              *)
(***************************************************************************)
PromptPasses(fields) == PromptFieldOk(fields.prompt) /\ validate_prompt(fields.prompt).ok

SizeAllowed(w, h) ==
    /\ w \in 256..1024 /\ h \in 256..1024
    /\ h <= 2 * w /\ w <= 2 * h
    /\ w % 8 = 0 /\ h % 8 = 0

C24_SizeAcceptedIffAllowed ==
    (d_pc \notin {"idle", "received"} /\ PromptPasses(d_raw) /\ validate_style(d_raw.style).ok)
    => IF SizeAllowed(d_raw.size[1], d_raw.size[2])
       THEN d_pc = "constructed" /\ d_req.size = d_raw.size
       ELSE d_pc = "failed" /\ d_error.error = "AIServiceError"

\* A size inside the bounds and the ratio, its width no multiple of 8, has
\* been rejected.
C24_Witness ==
    /\ d_pc = "failed"
    /\ d_raw.size = <<MIN_IMAGE_DIMENSION + 4, MIN_IMAGE_DIMENSION>>
    /\ d_error.message = "Image dimensions must be multiples of 8"

(***************************************************************************)
(* C25.  With a prompt and a size that pass, a style that differs from one *)
(* of the five supported styles in letter case only is accepted and stored *)
(* in the spelling of the enumeration, and every other style is rejected;  *)
(* the style of a constructed request is a supported style.                *)
(***************************************************************************)
IsCaseVariant(v, st) ==
    /\ Len(v) = Len(st)
    /\ \A i \in DOMAIN v : v[i] \in {st[i], CharUpper(st[i]), CharLower(st[i])}

C25_StyleCanonicalized ==
    /\ d_pc = "constructed" => d_req.style \in Range(SUPPORTED_STYLES)
    /\ (d_pc \notin {"idle", "received"} /\ PromptPasses(d_raw)
           /\ validate_size(d_raw.size).ok)
       => IF \E k \in DOMAIN SUPPORTED_STYLES : IsCaseVariant(d_raw.style, SUPPORTED_STYLES[k])
          THEN /\ d_pc = "constructed"
               /\ IsCaseVariant(d_raw.style, d_req.style)
          ELSE /\ d_pc = "failed"
               /\ d_error.message = "Invalid illustration style"

\* "Children's Book" has been stored as "children's book".
C25_Witness ==
    /\ d_pc = "constructed"
    /\ d_raw.style = IN_childrens
    /\ d_req.style = STYLE_children_s_book

(***************************************************************************)
(* C26.  Every content generate_story returns as a success has at least    *)
(* 100 words and holds none of the words death, violence, scary, blood,    *)
(* weapon in any letter case; an answer of the provider that has fewer     *)
(* words or holds one of the words is never returned: the call raises.     *)
(***************************************************************************)
WordStarts(text) ==
    {i \in DOMAIN text : ~IsSpace(text[i]) /\ (i = 1 \/ IsSpace(text[i - 1]))}

IsCaseVariantAt(text, i, word) ==
    /\ i + Len(word) - 1 <= Len(text)
    /\ \A k \in DOMAIN word : text[i + k - 1] \in {word[k], CharUpper(word[k])}

HoldsUnsafeWord(text) ==
    \E w \in {W_death, W_violence, W_scary, W_blood, W_weapon} :
        \E i \in DOMAIN text : IsCaseVariantAt(text, i, w)

PassesResponseChecks(text) ==
    Cardinality(WordStarts(text)) >= 100 /\ ~HoldsUnsafeWord(text)

C26_SuccessPassedResponseValidation ==
    /\ a_pc = "returned" => (a_result.ok /\ PassesResponseChecks(a_result.value))
    /\ (a_pc \in {"returned", "raised"} /\ ~PassesResponseChecks(a_content))
       => (a_pc = "raised" /\ ~a_result.ok)

\* An answer with an unsafe word in upper case after 100 words was checked
\* and the call raised.
C26_Witness ==
    /\ a_pc = "raised"
    /\ a_content = Tale(MIN_STORY_WORDS) \o <<"\n">> \o StrUpper(W_weapon)
    /\ a_result.message = "Generated content contains unsafe elements"

(***************************************************************************)
(* C27.  A story generation call, with its attempts of at most 25 seconds  *)
(* each (at most three) and the waits between them, never lasts longer     *)
(* than the 30 seconds of the story threshold.                             *)
(***************************************************************************)
C27_RetryBudgetWithinStoryThreshold ==
    p_loop = "story" => p_elapsed <= STORY_SLA

(***************************************************************************)
(* C28.  Both controllers judge a successful call by the rule              *)
(* elapsed < threshold, 30 seconds for a story and 45 seconds for an       *)
(* illustration: the call is marked as a breach exactly when its elapsed   *)
(* time is equal to the threshold or above it.                             *)
(***************************************************************************)
SlaThreshold(kind) == IF kind = "story" THEN 300 ELSE 450

C28_BreachIffAtOrAboveThreshold ==
    m_pc = "measured" => (m_breach <=> m_elapsed >= SlaThreshold(m_kind))

(***************************************************************************)
(* C29.  An attempt that fails with a fault the error table gives as not   *)
(* retryable, such as an invalid-request fault, is the last upstream call  *)
(* of the request: once such a fault is the latest error, the call is      *)
(* over.                                                                   *)
(***************************************************************************)
NeverRetried == {"stability.InvalidRequestError"}

C29_NonRetryableFaultNotRetried ==
    \A t \in Tasks : i_last_error[t] \in NeverRetried => i_pc[t] = "done"

(***************************************************************************)
(* C30.  An illustration request whose three attempts all failed, the last *)
(* of them with the rate-limit fault, fails with the RETRY_FAILED message  *)
(* and the rate-limit fault as the original error, not with the            *)
(* classification of one fault.  (The service keeps nothing of the faults  *)
(* of the earlier attempts, so the state is the one reached when all three *)
(* attempts met the rate limit.)                                           *)
(***************************************************************************)
C30_ExhaustedRetriesSurfaceRetryFailed ==
    \A t \in Tasks :
        (/\ i_pc[t] = "done"
         /\ i_calls[t] = SD_MAX_RETRIES
         /\ i_result[t].kind = "raise"
         /\ i_last_error[t] = "stability.RateLimitError")
        => /\ i_result[t].message = ERROR_MESSAGES.RETRY_FAILED
           /\ i_result[t].original_error = "stability.RateLimitError"

(***************************************************************************)
(* C31.  In each of the three retry loops (the retry decorator, the loop   *)
(* of the illustration service, the retried story call) the wait after     *)
(* failed attempt i (from 0) is the first wait times 2^i, so the waits     *)
(* before the third attempt add up to three times the first.               *)
(***************************************************************************)
RECURSIVE SumSeq(_)
SumSeq(xs) == IF xs = <<>> THEN 0 ELSE Head(xs) + SumSeq(Tail(xs))

C31_WaitsDoubleEachAttempt ==
    /\ \A k \in DOMAIN p_waits : p_waits[k] = p_waits[1] * Pow2(k - 1)
    /\ Len(p_waits) = 2 => SumSeq(p_waits) = 3 * p_waits[1]

(***************************************************************************)
(* C32.  Every request handed to the illustration service, the coordinator *)
(* that handles requests, reaches one terminal outcome, the bytes of an    *)
(* image (Succeeded) or an error (Failed), provided each attempt at the    *)
(* provider returns or raises.  Its stages advance only along received,    *)
(* constructed (structurally valid), dispatching (a call of the provider   *)
(* or the wait before the next) and the outcome; the service has no stage  *)
(* for a safety check.  Once a request has its outcome nothing more runs   *)
(* for it: no call of the provider is added and the outcome stays.         *)
(***************************************************************************)
StageMoves ==
    {<<"received", "constructed">>, <<"received", "done">>,
     <<"constructed", "in_provider">>, <<"in_provider", "backoff">>,
     <<"backoff", "in_provider">>, <<"in_provider", "done">>}

StageStep ==
    \A t \in Tasks :
        /\ i_pc'[t] # i_pc[t] => <<i_pc[t], i_pc'[t]>> \in StageMoves
        /\ i_pc[t] = "done"
           => /\ i_pc'[t] = "done"
              /\ i_result'[t] = i_result[t]
              /\ i_calls'[t] = i_calls[t]
        /\ i_pc'[t] = "done" => i_result'[t].kind \in {"bytes", "raise"}
        /\ i_pc'[t] # "done" => i_result'[t] = NoResult

MatchingEntries(text) ==
    LET t == _normalize_text(StrLower(text))
    IN  {<<1, i>> : i \in {k \in DOMAIN NSFW_KEYWORDS : Contains(t, NSFW_KEYWORDS[k])}}
        \cup {<<2, i>> : i \in {k \in DOMAIN UNSAFE_PATTERNS :
                                    PatternSearch(UNSAFE_PATTERNS[k], t)}}
        \cup {<<3, i>> : i \in {k \in DOMAIN AGE_INAPPROPRIATE_CONTENT :
                                    PatternSearch(AGE_INAPPROPRIATE_CONTENT[k], t)}}

EntryBefore(p, q) == p[1] < q[1] \/ (p[1] = q[1] /\ p[2] < q[2])

EarliestEntry(text) ==
    CHOOSE p \in MatchingEntries(text) :
        \A q \in MatchingEntries(text) \ {p} : EntryBefore(p, q)

GroupMessage(g) ==
    CASE g = 1 -> "Content contains inappropriate keywords"
      [] g = 2 -> "Content contains unsafe patterns"
      [] g = 3 -> "Content not suitable for target age group"

EntryDetails(p) ==
    CASE p[1] = 1 -> "keyword"
      [] p[1] = 2 -> UNSAFE_PATTERNS[p[2]].pattern
      [] p[1] = 3 -> AGE_INAPPROPRIATE_CONTENT[p[2]].pattern

C33_EarliestGroupFirstEntryReported ==
    (v_pc = "checked" /\ MatchingEntries(v_text) # {})
    => v_safety = ValidationResult(FALSE, GroupMessage(EarliestEntry(v_text)[1]),
                                   EntryDetails(EarliestEntry(v_text)))

\* "The big mature scary weapon" matches both unsafe patterns and an age
\* pattern; the result names the first unsafe pattern, whose word stands
\* last in the text.
C33_Witness ==
    /\ v_pc = "checked"
    /\ v_parts = [prefix |-> PRE_the_big, core |-> W_mature, suffix |-> SUF_scary_weapon]
    /\ MatchingEntries(v_text) = {<<2, 1>>, <<2, 2>>, <<3, 1>>}
    /\ v_safety.details = "(?i)(violence|weapon|drug)"

(***************************************************************************)
(* C34.  Retry decorator: for every max_attempts, 0 included, and every    *)
(* sequence of outcomes the wrapped function is invoked at most            *)
(* max_attempts times, and RETRY_FAILED is never reported without at       *)
(* least one invocation.                                                   *)
(***************************************************************************)
C34_RetryFailedOnlyAfterAnInvocation ==
    /\ Len(history) <= max_attempts
    /\ (pc = "done" /\ outcome.kind = "raise"
        /\ outcome.message = ERROR_MESSAGES.RETRY_FAILED) => Len(history) >= 1

(***************************************************************************)
(* C35.  Every failure handed to a caller carries a request identifier,    *)
(* and the failures of two distinct requests never carry the same one,     *)
(* whether the failure is of validation, of the safety check or of the     *)
(* upstream call.                                                          *)
(***************************************************************************)
Failed(t) == i_pc[t] = "done" /\ i_result[t].kind = "raise"

C35_FailureIdsDistinctAcrossRequests ==
    \A t \in Tasks :
        Failed(t)
        => /\ i_request_id[t].kind # "absent"
           /\ \A u \in Tasks \ {t} :
                  Failed(u) => i_request_id[u] # i_request_id[t]

(***************************************************************************)
(* C37.  sanitize_string: sanitizing a sanitized string changes nothing,   *)
(* sanitize_string(sanitize_string(s)) = sanitize_string(s) for every      *)
(* prompt the request is built from.                                       *)
(***************************************************************************)
C37_SanitizeStringIdempotent ==
    d_pc # "received"
    => sanitize_string(sanitize_string(d_raw.prompt)) = sanitize_string(d_raw.prompt)

(***************************************************************************)
(* C38.  Image dimensions: every pair that validate_image_dimensions of    *)
(* utils/validators.py accepts is accepted by the size validation of       *)
(* IllustrationRequest too, and the utility accepts no pair with a zero    *)
(* or negative width or height.                                            *)
(***************************************************************************)
C38_UtilityAcceptsOnlyRequestSizes ==
    (z_pc = "checked" /\ z_util.ok)
    => /\ z_request.ok
       /\ z_dims[1] > 0 /\ z_dims[2] > 0

=============================================================================
